---- MODULE Spec2Model ----
(***************************************************************************)
(* HexWarden: the concurrent stream engine (reader, worker pool, writer,   *)
(* supervisor), the per-chunk pipeline it applies, and the EncryptFile /   *)
(* DecryptFile operations that drive it.                                   *)
(***************************************************************************)
EXTENDS Naturals, Integers, Sequences, FiniteSets, TLC

(***************************************************************************)
(* Bounds of the model.                                                    *)
(***************************************************************************)
QueueSize == 1        \* StreamConfig.QueueSize: capacity of taskChan and resultChan
Concurrency == 2      \* StreamConfig.Concurrency: workers of the pool
ChunkSize == 2        \* StreamConfig.ChunkSize: bytes per plaintext chunk
MaxRecords == 5       \* longest record stream handed to Process directly
MaxFaultyRecords == 2 \* longest record stream of a run with faults or Cancel
MaxPlainLen == 3      \* longest plaintext file handed to EncryptFile
MaxNonce == 1         \* AEAD nonces are drawn from 0..MaxNonce

(***************************************************************************)
(* Program constants.                                                      *)
(***************************************************************************)
PaddingSize == 16     \* PKCS#7 block size
DataShards == 4       \* Reed-Solomon k
ParityShards == 10    \* Reed-Solomon m
NonceSize == 12       \* AES-GCM nonce prefix
TagSize == 16         \* AES-GCM tag
ErrChanCap == 3       \* errChan: reader, workers, writer
MaxInt32 == 2147483647

Workers == 1..Concurrency
Nonces == 0..MaxNonce
Passwords == {"", "pw1", "pw2"}
SaltWords == 8        \* a 32-byte salt as eight 4-byte words
\* GenerateSalt draws from: all-zero, one repeated word, two unpatterned salts
SaltPool == {[i \in 1..SaltWords |-> 0], [i \in 1..SaltWords |-> 7],
             [i \in 1..SaltWords |-> i]}

Min(a, b) == IF a < b THEN a ELSE b

RECURSIVE Sum(_, _, _)
\* f[lo] + ... + f[hi], the range halved
Sum(f, lo, hi) ==
    IF lo > hi THEN 0
    ELSE IF lo = hi THEN f[lo]
    ELSE Sum(f, lo, (lo + hi) \div 2) + Sum(f, (lo + hi) \div 2 + 1, hi)

RECURSIVE Join(_, _, _)
\* f[lo] \o ... \o f[hi], the range halved
Join(f, lo, hi) ==
    IF lo > hi THEN <<>>
    ELSE IF lo = hi THEN f[lo]
    ELSE Join(f, lo, (lo + hi) \div 2) \o Join(f, (lo + hi) \div 2 + 1, hi)


(***************************************************************************)
(* Results of fallible operations: a value or an error kind.               *)
(***************************************************************************)
Ok(v) == [ok |-> TRUE, val |-> v, err |-> "nil"]
Fail(e) == [ok |-> FALSE, val |-> <<>>, err |-> e]

(***************************************************************************)
(* Byte slices are sequences of bytes.  Go tells the nil slice from the    *)
(* empty slice (data == nil) though both have length 0; the nil slice is   *)
(* the one value here that is no sequence of bytes.                        *)
(***************************************************************************)
NilBytes == <<-1>>
\* len(data)
SliceLen(data) == IF data = NilBytes THEN 0 ELSE Len(data)

(***************************************************************************)
(* Compressor (gzip at the default level).  A member is the 10-byte gzip   *)
(* header, the DEFLATE stream of the input and the 8-byte trailer (CRC-32  *)
(* and length); empty input is passed through unchanged.  The writer side  *)
(* is compress/flate at level 6: lazy matching over the hash chains of a   *)
(* sliding window, then each block stored, in the fixed codes or in codes  *)
(* of its own, whichever is shortest, then the empty stored block of       *)
(* Close.  The reader side is compress/gzip's header parser and            *)
(* compress/flate's decoder for stored blocks and blocks in the fixed and  *)
(* in dynamic codes, member after member.  Decompress copies through an    *)
(* io.LimitReader: at most MaxDecompressionSize bytes come out, and once   *)
(* they are out no further Read is made.                                   *)
(***************************************************************************)
\* CRC-32 (IEEE), as hash/crc32 computes it with its table.  A 32-bit word
\* is kept as its four bytes, low byte first.
RECURSIVE BitXor(_, _)
BitXor(a, b) ==
    IF a = 0 THEN b
    ELSE IF b = 0 THEN a
    ELSE ((a + b) % 2) + 2 * BitXor(a \div 2, b \div 2)

XorWord(a, b) == [i \in 1..4 |-> BitXor(a[i], b[i])]
\* w >> 1
ShiftRight1(w) ==
    [i \in 1..4 |-> (w[i] \div 2) + (IF i < 4 THEN 128 * (w[i + 1] % 2) ELSE 0)]
\* w >> 8
ShiftRight8(w) == <<w[2], w[3], w[4], 0>>
\* the reversed polynomial 0xEDB88320
Crc32Poly == <<32, 131, 184, 237>>
AllOnes == <<255, 255, 255, 255>>

RECURSIVE Crc32TableEntry(_, _)
\* the table entry of a byte: `steps` more rounds of shift and conditional xor
Crc32TableEntry(w, steps) ==
    IF steps = 0 THEN w
    ELSE Crc32TableEntry(IF w[1] % 2 = 1 THEN XorWord(ShiftRight1(w), Crc32Poly)
                                        ELSE ShiftRight1(w),
                         steps - 1)

Crc32Table == [b \in 0..255 |-> Crc32TableEntry(<<b, 0, 0, 0>>, 8)]

\* one round of the update loop: crc = table[byte(crc) ^ b] ^ (crc >> 8)
Crc32Byte(crc, b) == XorWord(Crc32Table[BitXor(crc[1], b)], ShiftRight8(crc))

\* the update loop over the bytes of data, the range of the bytes halved; the
\* register is bound to its value before the rounds of the second half
Crc32Update(crc, data) ==
    LET RECURSIVE update(_, _, _)
        update(c, lo, hi) ==
            IF lo > hi THEN c
            ELSE IF lo = hi THEN Crc32Byte(c, data[lo])
            ELSE CHOOSE r \in { update(e, (lo + hi) \div 2 + 1, hi) :
                                e \in {update(c, lo, (lo + hi) \div 2)} } : TRUE
    IN update(crc, 1, Len(data))

\* the checksum of data, as the four bytes the gzip trailer stores
ChecksumIEEE(data) ==
    CHOOSE r \in { XorWord(c, AllOnes) : c \in {Crc32Update(AllOnes, data)} } : TRUE

\* a length modulo 2^32 as four bytes, low byte first
LittleEndian32(n) ==
    <<n % 256, (n \div 256) % 256, (n \div 65536) % 256, (n \div 16777216) % 256>>

GzipHeader == <<31, 139, 8, 0, 0, 0, 0, 0, 0, 255>>
GzipTrailer(data) == ChecksumIEEE(data) \o LittleEndian32(Len(data))

\* 100 MB in the code, far above the 1 MB chunk; here just above ChunkSize
MaxDecompressionSize == ChunkSize + 1

\* ---- bit strings: the bits of a byte are taken lowest first ----
\* the n bits (at most 16) from bit p (counted from 0) as a number, first
\* bit lowest; bits past the end of data read as zero
readBits(data, p, n) ==
    LET at == (p \div 8) + 1
        byte(k) == IF k <= Len(data) THEN data[k] ELSE 0
    IN ((byte(at) + 256 * byte(at + 1) + 65536 * byte(at + 2)) \div (2 ^ (p % 8))) % (2 ^ n)
RECURSIVE reverseBits(_, _)
\* the n low bits of v in the opposite order
reverseBits(v, n) ==
    IF n = 0 THEN 0 ELSE (v % 2) * (2 ^ (n - 1)) + reverseBits(v \div 2, n - 1)
\* writeBits: the n low bits of v, lowest first
LowBits(v, n) == [i \in 1..n |-> (v \div (2 ^ (i - 1))) % 2]
\* writeCode: a Huffman code of n bits, highest first
CodeBits(v, n) == [i \in 1..n |-> (v \div (2 ^ (n - i))) % 2]
\* the bytes of a bit string, the last byte filled up with zero bits
PackBits(bits) ==
    CHOOSE r \in
      { [i \in 1..((Len(b) + 7) \div 8) |->
           LET B(k) == IF k <= Len(b) THEN b[k] ELSE 0
           IN B(8 * i - 7) + 2 * B(8 * i - 6) + 4 * B(8 * i - 5) + 8 * B(8 * i - 4)
              + 16 * B(8 * i - 3) + 32 * B(8 * i - 2) + 64 * B(8 * i - 1) + 128 * B(8 * i)] :
          b \in {bits} } : TRUE

\* ---- compress/flate: tables shared by the writer and the reader ----
\* constants of compress/flate
minMatchLength == 4
maxMatchLength == 258
endBlockMarker == 256
maxNumLit == 286
maxNumDist == 30
maxStoreBlockSize == 65535
\* levels[6].lazy: no search when the match in hand is this long
lazy == 16
codeOrder == <<16, 17, 18, 0, 8, 7, 9, 6, 10, 5, 11, 4, 12, 3, 13, 2, 14, 1, 15>>
\* indexed by length code + 1; lengths count from baseMatchLength = 3
lengthBase ==
    <<0, 1, 2, 3, 4, 5, 6, 7, 8, 10, 12, 14, 16, 20, 24, 28, 32, 40, 48, 56,
      64, 80, 96, 112, 128, 160, 192, 224, 255>>
lengthExtraBits ==
    <<0, 0, 0, 0, 0, 0, 0, 0, 1, 1, 1, 1, 2, 2, 2, 2, 3, 3, 3, 3,
      4, 4, 4, 4, 5, 5, 5, 5, 0>>
lengthCode(len) ==
    CHOOSE c \in 0..28 : lengthBase[c + 1] <= len /\ (c = 28 \/ lengthBase[c + 2] > len)
\* offsets count from baseMatchOffset = 1
offsetExtraBits(c) == IF c < 4 THEN 0 ELSE (c - 2) \div 2
offsetBase(c) == IF c < 4 THEN c ELSE (2 + (c % 2)) * (2 ^ ((c - 2) \div 2))
offsetCode(off) ==
    CHOOSE c \in 0..29 : offsetBase(c) <= off /\ (c = 29 \/ offsetBase(c + 1) > off)
\* fixedLiteralEncoding: the code and its size of a literal/length symbol
fixedLiteralCode(s) ==
    IF s < 144 THEN [code |-> s + 48, len |-> 8]
    ELSE IF s < 256 THEN [code |-> s + 400 - 144, len |-> 9]
    ELSE IF s < 280 THEN [code |-> s - 256, len |-> 7]
    ELSE [code |-> s + 192 - 280, len |-> 8]

\* ---- compress/flate writer at level 6 (gzip.DefaultCompression) ----
\* levels[6] is {good 8, lazy 16, nice 128, chain 128, skipNever}.
windowSize == 32768
maxFlateBlockTokens == 16384
good == 8
nice == 128
chain == 128
\* a match of minMatchLength bytes is taken only from this near
nearMatchOffset == 4096

\* A token is a literal byte (val) or a match of val bytes, off bytes back.
\* findMatch at position pos (from 0).  The hash chain of pos holds the
\* earlier positions with the hash of pos, the nearest first; it is walked
\* down to minIndex, the start of the window, for at most chain candidates.
\* A candidate replaces the match in hand when it is longer and either
\* longer than minMatchLength or near; the walk stops at a match of nice
\* bytes.
findMatch(data, pos, minIndex, prevLength, lookahead) ==
    LET \* hash4 of the four bytes from position i: the 17 high bits of
        \* (b3 | b2<<8 | b1<<16 | b0<<24) * hashmul modulo 2^32, hashmul
        \* being 0x1e35a7bd; the product is taken byte by byte, the low
        \* byte first
        hash4(i) ==
            LET p0 == data[i + 4] * 189
                p1 == data[i + 4] * 167 + data[i + 3] * 189 + p0 \div 256
                p2 == data[i + 4] * 53 + data[i + 3] * 167 + data[i + 2] * 189 + p1 \div 256
                p3 == data[i + 4] * 30 + data[i + 3] * 53 + data[i + 2] * 167
                      + data[i + 1] * 189 + p2 \div 256
            IN (p3 % 256) * 512 + (p2 % 256) * 2 + (p1 % 256) \div 128
        RECURSIVE matchLen(_, _, _)
        \* how many bytes from i + lo and from pos + lo agree, at most
        \* hi - lo (the range is halved)
        matchLen(i, lo, hi) ==
            IF hi - lo <= 1
            THEN IF hi > lo /\ data[i + lo + 1] = data[pos + lo + 1] THEN 1 ELSE 0
            ELSE CHOOSE r \in { IF n < (lo + hi) \div 2 - lo THEN n
                                ELSE n + matchLen(i, (lo + hi) \div 2, hi) :
                                n \in {matchLen(i, lo, (lo + hi) \div 2)} } : TRUE
        \* one candidate of the walk, which a match of nice bytes has stopped
        try(m, i) ==
            IF m.ok /\ m.length >= Min(nice, Min(lookahead, maxMatchLength)) THEN m
            ELSE CHOOSE r \in
                   { IF n > m.length /\ (n > minMatchLength \/ pos - i <= nearMatchOffset)
                     THEN [ok |-> TRUE, length |-> n, offset |-> pos - i]
                     ELSE m :
                     n \in {matchLen(i, 0, Min(lookahead, maxMatchLength))} } : TRUE
        RECURSIVE walk(_, _, _, _)
        \* the candidates prev[lo..hi] in turn (the range is halved)
        walk(prev, m, lo, hi) ==
            IF lo > hi THEN m
            ELSE IF lo = hi THEN try(m, prev[lo])
            ELSE CHOOSE r \in { walk(prev, e, (lo + hi) \div 2 + 1, hi) :
                                e \in {walk(prev, m, lo, (lo + hi) \div 2)} } : TRUE
        \* the hash chain of pos inside the window, the nearest position
        \* first, h being the hash of pos
        hashPrev(h) ==
            SelectSeq([k \in 1..(pos - minIndex) |-> pos - k], LAMBDA i : hash4(i) = h)
    IN CHOOSE r \in
         { walk(prev, [ok |-> FALSE, length |-> prevLength, offset |-> 0],
                1, Min(Len(prev), IF prevLength >= good THEN chain \div 4 ELSE chain)) :
           prev \in {hashPrev(hash4(pos))} } : TRUE

\* one round of the loop of (*compressor).deflate (lazy matching,
\* fastSkipHashing = skipNever).  Write copies the input into a window of
\* 2 * windowSize bytes, d.base..d.windowEnd of the input; while input is
\* left, deflate stops with less than a full match of lookahead and
\* fillDeflate moves the window on by windowSize.  Close runs the loop with
\* sync set to the end of the input.
deflateStep(data, d) ==
    LET lookahead == d.windowEnd - d.index
        \* compressor.writeBlock when maxFlateBlockTokens tokens are in hand
        \* (always: FALSE) or when any are: they become a block whose input
        \* is the bytes from blockStart to index, or nil when fillDeflate
        \* has moved the window past blockStart
        flushBlock(e, always) ==
            IF Len(e.tokens) = maxFlateBlockTokens \/ (always /\ Len(e.tokens) > 0)
            THEN [e EXCEPT !.tokens = <<>>, !.blockStart = e.index,
                           !.blocks = Append(@, [tokens |-> e.tokens,
                                                 input |-> IF e.blockStart >= e.base
                                                           THEN SubSeq(data, e.blockStart + 1,
                                                                       e.index)
                                                           ELSE NilBytes])]
            ELSE e
        \* the byte before this one, written as a literal if there is one
        literal == IF d.byteAvailable
                   THEN Append(d.tokens, [kind |-> "literal", val |-> data[d.index], off |-> 0])
                   ELSE d.tokens
    IN IF d.done THEN d
       ELSE IF lookahead < minMatchLength + maxMatchLength /\ d.windowEnd # Len(data)
       THEN [d EXCEPT !.base = @ + windowSize,
                      !.windowEnd = Min(Len(data), d.base + 3 * windowSize)]
       ELSE IF lookahead = 0
       THEN flushBlock([d EXCEPT !.tokens = literal, !.byteAvailable = FALSE,
                                 !.done = TRUE], TRUE)
            \* by the rule of lazy matching the match found one byte back
            \* is written when the one found here (m) is no longer, and
            \* else the byte before this one is written as a literal
       ELSE CHOOSE r \in
              { IF d.length >= minMatchLength /\ m.length <= d.length
                THEN flushBlock([d EXCEPT !.tokens = Append(@, [kind |-> "match",
                                                                val |-> d.length,
                                                                off |-> d.offset]),
                                          !.index = @ + d.length - 1,
                                          !.byteAvailable = FALSE,
                                          !.length = minMatchLength - 1,
                                          !.offset = m.offset],
                                FALSE)
                ELSE [flushBlock([d EXCEPT !.tokens = literal], FALSE)
                        EXCEPT !.index = @ + 1, !.byteAvailable = TRUE,
                               !.length = m.length, !.offset = m.offset] :
                \* with no earlier position of the same hash in the window
                \* (chainHead below minIndex) the walk of findMatch is empty
                m \in {IF d.index < d.windowEnd - (minMatchLength - 1)
                          /\ lookahead > d.length /\ d.length < lazy
                       THEN findMatch(data, d.index,
                                      IF d.base > d.index - windowSize THEN d.base
                                      ELSE d.index - windowSize,
                                      minMatchLength - 1, lookahead)
                       ELSE [ok |-> FALSE, length |-> minMatchLength - 1,
                             offset |-> 0]} } : TRUE

RECURSIVE deflateRounds(_, _, _)
\* 2^k rounds of the loop, or as many as it takes
deflateRounds(data, d, k) ==
    IF d.done THEN d
    ELSE IF k = 0 THEN deflateStep(data, d)
    ELSE CHOOSE r \in { deflateRounds(data, e, k - 1) :
                        e \in {deflateRounds(data, d, k - 1)} } : TRUE

RECURSIVE deflate(_, _, _)
\* the blocks of the input: the loop run to its end, 1, 2, 4, ... rounds at
\* a time from the k-th turn on
deflate(data, d, k) ==
    IF d.done THEN d.blocks
    ELSE CHOOSE r \in { deflate(data, e, k + 1) : e \in {deflateRounds(data, d, k)} } : TRUE

\* huffmanEncoder.bitCounts: how many of the symbols, whose frequencies are
\* list in increasing order (three or more), get a code of each length from
\* 1 to maxBits (lowered to one less than their number)
bitCounts(list, maxBits0) ==
    LET n == Len(list)
        maxBits == Min(maxBits0, n - 1)
        \* list[i].freq (i from 0), list[n] being the sentinel maxNode
        freq(i) == IF i < n THEN list[i + 1] ELSE MaxInt32
        RECURSIVE down(_, _)
        down(levels, level) ==
            IF levels[level - 1].needed > 0 THEN down(levels, level - 1) ELSE level
        \* one round of the loop at s.level: the next item of the level is a
        \* leaf or a pair of the level below
        step(s) ==
            LET l == s.levels[s.level]
            IN IF l.nextPairFreq = MaxInt32 /\ l.nextCharFreq = MaxInt32
               THEN [s EXCEPT !.levels[s.level].needed = 0,
                              !.levels[s.level + 1].nextPairFreq = MaxInt32,
                              !.level = @ + 1]
               ELSE CHOOSE r \in
                      { IF t.levels[t.level].needed # 0
                        THEN [t EXCEPT !.level = down(t.levels, t.level)]
                        ELSE IF t.level = maxBits THEN [t EXCEPT !.done = TRUE]
                        ELSE [t EXCEPT !.levels[t.level + 1].nextPairFreq =
                                           l.lastFreq + t.levels[t.level].lastFreq,
                                       !.level = @ + 1] :
                        t \in {IF l.nextCharFreq < l.nextPairFreq
                               THEN [s EXCEPT !.leafCounts[s.level][s.level] = @ + 1,
                                              !.levels[s.level].lastFreq = l.nextCharFreq,
                                              !.levels[s.level].nextCharFreq =
                                                  freq(s.leafCounts[s.level][s.level] + 1),
                                              !.levels[s.level].needed = @ - 1]
                               ELSE [s EXCEPT !.leafCounts[s.level] =
                                                  [j \in 0..maxBits |->
                                                     IF j < s.level
                                                     THEN s.leafCounts[s.level - 1][j]
                                                     ELSE @[j]] @@ <<>>,
                                              !.levels[s.level].lastFreq = l.nextPairFreq,
                                              !.levels[s.level].needed = @ - 1,
                                              !.levels[s.level - 1].needed = 2]} } : TRUE
        RECURSIVE rounds(_, _)
        rounds(s, k) ==
            IF s.done THEN s
            ELSE IF k = 0 THEN step(s)
            ELSE CHOOSE r \in { rounds(t, k - 1) : t \in {rounds(s, k - 1)} } : TRUE
        RECURSIVE loop(_, _)
        \* the loop run to its end, 1, 2, 4, ... rounds at a time
        loop(s, k) ==
            IF s.done THEN s.leafCounts[maxBits]
            ELSE CHOOSE r \in { loop(t, k + 1) : t \in {rounds(s, k)} } : TRUE
    IN CHOOSE r \in
         { <<>> \o [bits \in 1..maxBits |->
                      leaves[maxBits - bits + 1] - leaves[maxBits - bits]] :
           leaves \in
             {loop([levels |->
                        [k \in 0..(maxBits + 1) |->
                           IF k \in 1..maxBits
                           THEN [lastFreq |-> freq(1), nextCharFreq |-> freq(2),
                                 nextPairFreq |-> IF k = 1 THEN MaxInt32
                                                  ELSE freq(0) + freq(1),
                                 needed |-> IF k = maxBits THEN 2 * n - 4 ELSE 0]
                           ELSE [lastFreq |-> 0, nextCharFreq |-> 0, nextPairFreq |-> 0,
                                 needed |-> 0]] @@ <<>>,
                    leafCounts |->
                        [k \in 0..maxBits |->
                           [j \in 0..maxBits |-> IF k = j /\ k >= 1 THEN 2 ELSE 0] @@ <<>>]
                        @@ <<>>,
                    level |-> maxBits, done |-> FALSE], 0)} } : TRUE

\* huffmanEncoder.generate: the code and its size of each symbol (codes[s + 1]
\* for symbol s, size 0 for a symbol that does not occur).  One or two
\* symbols get the codes 0 and 1 of one bit.  Of three or more, bitCounts
\* takes the frequencies in increasing order; in assignEncodingAndSize the
\* symbols stand in the order of their frequencies and then of their
\* values, the last bitCount[1] of them get one bit, those before them two
\* bits and so on, and the codes of one size are numbered upwards in the
\* order of the symbols.
generate(freq, maxBits) ==
    LET \* the place (from 0) of syms[t] among the symbols that occur
        place(syms, t) ==
            Cardinality({u \in 1..Len(syms) :
                            \/ freq[syms[u] + 1] < freq[syms[t] + 1]
                            \/ freq[syms[u] + 1] = freq[syms[t] + 1] /\ syms[u] < syms[t]})
        \* the size of the code of the symbol at place p of count
        sizeAt(bitCount, count, p) ==
            CHOOSE b \in 1..Len(bitCount) :
                /\ count - Sum(bitCount, 1, b) <= p
                /\ p < count - Sum(bitCount, 1, b - 1)
        RECURSIVE first(_, _)
        \* the first code of size b
        first(bitCount, b) ==
            IF b = 1 THEN 0 ELSE 2 * (first(bitCount, b - 1) + bitCount[b - 1])
        \* the code of syms[t], size[u] being the size of that of syms[u]
        code(bitCount, size, t) ==
            [code |-> first(bitCount, size[t])
                      + Cardinality({u \in 1..(t - 1) : size[u] = size[t]}),
             len |-> size[t]]
        assignEncodingAndSize(bitCount, syms) ==
            CHOOSE r \in
              { <<>> \o [i \in 1..Len(freq) |->
                           IF freq[i] = 0 THEN [code |-> 0, len |-> 0]
                           ELSE code(bitCount, size,
                                     CHOOSE u \in 1..Len(syms) : syms[u] = i - 1)] :
                size \in {<<>> \o [t \in 1..Len(syms) |->
                                     sizeAt(bitCount, Len(syms), place(syms, t))]} } : TRUE
    IN CHOOSE r \in
         { IF Len(syms) <= 2
           THEN <<>> \o [i \in 1..Len(freq) |->
                           IF freq[i] = 0 THEN [code |-> 0, len |-> 0]
                           ELSE [code |-> (CHOOSE u \in 1..Len(syms) : syms[u] = i - 1) - 1,
                                 len |-> 1]]
           ELSE CHOOSE q \in
                  { assignEncodingAndSize(bitCount, syms) :
                    bitCount \in
                      {bitCounts(SortSeq([t \in 1..Len(syms) |-> freq[syms[t] + 1]],
                                         LAMBDA a, b : a < b),
                                 maxBits)} } : TRUE :
           syms \in {SelectSeq([i \in 1..Len(freq) |-> i - 1],
                               LAMBDA s : freq[s + 1] # 0)} } : TRUE

\* generateCodegen: the code sizes of the numLiterals literal/length symbols
\* and of the numOffsets offset symbols, run-length coded.  An entry is a
\* symbol of the code-length alphabet and the value of its extra bits.  A
\* run of count copies of a size other than 0 is the size, then 16 for every
\* further 3 to 6 copies; a run of zeros is 18 for every 11 to 138 of them
\* and 17 for 3 to 10; what is left of a run, less than 3, is written as it
\* is.
generateCodegen(numLiterals, numOffsets, litEnc, offEnc) ==
    LET size(i) == IF i <= numLiterals THEN litEnc[i].len ELSE offEnc[i - numLiterals].len
        repeat(sym, extra, k) == [j \in 1..k |-> <<sym, extra>>]
        \* a run of c sizes
        run(sz, c) ==
            IF sz # 0
            THEN <<<<sz, 0>>>> \o repeat(16, 3, (c - 1) \div 6)
                 \o (IF (c - 1) % 6 >= 3 THEN <<<<16, ((c - 1) % 6) - 3>>>>
                     ELSE repeat(sz, 0, (c - 1) % 6))
            ELSE repeat(18, 127, c \div 138)
                 \o (IF c % 138 >= 11 THEN <<<<18, (c % 138) - 11>>>>
                     ELSE IF c % 138 >= 3 THEN <<<<17, (c % 138) - 3>>>>
                     ELSE repeat(0, 0, c % 138))
        \* the codegen with how often each of its 19 symbols occurs
        counted(codegen) ==
            [codegen |-> codegen,
             codegenFreq |-> <<>> \o [s \in 1..19 |->
                                       Cardinality({k \in 1..Len(codegen) :
                                                       codegen[k][1] = s - 1})]]
       \* the runs of equal sizes, each from the size at starts[r]
    IN CHOOSE r \in
         { counted(Join([k \in 1..Len(starts) |->
                           run(size(starts[k]),
                               (IF k < Len(starts) THEN starts[k + 1]
                                ELSE numLiterals + numOffsets + 1) - starts[k])],
                        1, Len(starts))) :
           starts \in {SelectSeq([i \in 1..(numLiterals + numOffsets) |-> i],
                                 LAMBDA i : i = 1 \/ size(i) # size(i - 1))} } : TRUE

\* writeTokens: the bits of the tokens, the end-of-block marker among them,
\* in the encodings leCodes (literals and lengths) and oeCodes (offsets)
writeTokens(tokens, leCodes, oeCodes) ==
    LET code(c) == CodeBits(c.code, c.len)
        match(t, lc, oc) ==
            code(leCodes[257 + lc + 1])
            \o LowBits(t.val - 3 - lengthBase[lc + 1], lengthExtraBits[lc + 1])
            \o code(oeCodes[oc + 1])
            \o LowBits(t.off - 1 - offsetBase(oc), offsetExtraBits(oc))
    IN Join([k \in 1..Len(tokens) |->
               IF tokens[k].kind = "literal" THEN code(leCodes[tokens[k].val + 1])
               ELSE match(tokens[k], lengthCode(tokens[k].val - 3),
                          offsetCode(tokens[k].off - 1))],
            1, Len(tokens))

\* writeDynamicHeader of a block that is not the last: HLIT, HDIST, HCLEN,
\* the sizes of the code-length codes in codegenOrder, and the codegen
writeDynamicHeader(numLiterals, numOffsets, numCodegens, codegen, cgCodes) ==
    LowBits(4, 3) \o LowBits(numLiterals - 257, 5) \o LowBits(numOffsets - 1, 5)
    \o LowBits(numCodegens - 4, 4)
    \o Join([k \in 1..numCodegens |-> LowBits(cgCodes[codeOrder[k] + 1].len, 3)],
            1, numCodegens)
    \o Join([k \in 1..Len(codegen) |->
               CodeBits(cgCodes[codegen[k][1] + 1].code, cgCodes[codegen[k][1] + 1].len)
               \o LowBits(codegen[k][2],
                          IF codegen[k][1] = 16 THEN 2 ELSE IF codegen[k][1] = 17 THEN 3
                          ELSE IF codegen[k][1] = 18 THEN 7 ELSE 0)],
            1, Len(codegen))

\* writeStoredHeader: the three header bits, the byte filled up, LEN and NLEN
writeStoredHeader(bits, length, isEof) ==
    bits \o LowBits(IF isEof THEN 1 ELSE 0, 3)
    \o [i \in 1..((8 - ((Len(bits) + 3) % 8)) % 8) |-> 0]
    \o LowBits(length, 16) \o LowBits(65535 - length, 16)

\* indexTokens: how often each literal/length symbol and each offset symbol
\* occurs, the number of the symbols up to the last that occurs, and the
\* codes generated from the frequencies; with no match at all one offset is
\* counted
indexTokens(tokens) ==
    LET Last(f) == CHOOSE n \in 0..Len(f) :
                       (n = 0 \/ f[n] # 0) /\ \A k \in (n + 1)..Len(f) : f[k] = 0
        literalFreq ==
            <<>> \o [s \in 1..maxNumLit |->
                      Cardinality({k \in 1..Len(tokens) :
                                      s - 1 = IF tokens[k].kind = "literal" THEN tokens[k].val
                                              ELSE 257 + lengthCode(tokens[k].val - 3)})]
        matchFreq ==
            <<>> \o [c \in 1..maxNumDist |->
                      Cardinality({k \in 1..Len(tokens) :
                                      /\ tokens[k].kind = "match"
                                      /\ offsetCode(tokens[k].off - 1) = c - 1})]
    IN CHOOSE r \in
         { [literalFreq |-> f[1], numLiterals |-> Last(f[1]),
            offsetFreq |-> f[2], numOffsets |-> Last(f[2]),
            literalEncoding |-> generate(f[1], 15),
            offsetEncoding |-> generate(f[2], 15)] :
           f \in {<<literalFreq,
                    IF \A c \in 1..maxNumDist : matchFreq[c] = 0
                    THEN [matchFreq EXCEPT ![1] = 1] ELSE matchFreq>>} } : TRUE

\* huffmanBitWriter.writeBlock after the bits written so far: the tokens and
\* the end-of-block marker are counted, and the block is written stored,
\* with the fixed codes or with codes of its own, whichever is shortest.
\* window is the writer's input, the bytes of the compressor's window that
\* the tokens stand for.
writeBlock(bits, tokens0, window) ==
    LET tokens == Append(tokens0, [kind |-> "literal", val |-> endBlockMarker, off |-> 0])
        storable == window # NilBytes /\ Len(window) <= maxStoreBlockSize
        \* generateFixedLiteralEncoding and generateFixedOffsetEncoding
        fixedLiteralEncoding == <<>> \o [s \in 1..maxNumLit |-> fixedLiteralCode(s - 1)]
        fixedOffsetEncoding == <<>> \o [c \in 1..maxNumDist |-> [code |-> c - 1, len |-> 5]]
        \* huffmanEncoder.bitLength: the bits the symbols take at their
        \* frequencies
        bitLength(codes, freq) ==
            Sum([i \in 1..Len(freq) |-> freq[i] * codes[i].len], 1, Len(freq))
        \* the extra bits of the lengths and the offsets, counted only for
        \* a block that can be stored
        extraBits(f) ==
            IF storable
            THEN Sum([s \in 1..maxNumLit |->
                        IF 257 + 8 < s /\ s <= f.numLiterals
                        THEN f.literalFreq[s] * lengthExtraBits[s - 257] ELSE 0],
                     1, maxNumLit)
                 + Sum([c \in 1..maxNumDist |->
                          IF 4 < c /\ c <= f.numOffsets
                          THEN f.offsetFreq[c] * offsetExtraBits(c - 1) ELSE 0],
                       1, maxNumDist)
            ELSE 0
        \* fixedSize: the bits of the block in the fixed codes
        fixedSize(f) ==
            3 + bitLength(fixedLiteralEncoding, f.literalFreq)
            + bitLength(fixedOffsetEncoding, f.offsetFreq) + extraBits(f)
        \* the number of code-length codes the header of the block lists
        numCodegens(c) ==
            CHOOSE n \in 4..19 :
                /\ n = 4 \/ c.codegenFreq[codeOrder[n] + 1] # 0
                /\ \A k \in (n + 1)..19 : c.codegenFreq[codeOrder[k] + 1] = 0
        \* dynamicSize: the bits of the block in its own codes
        dynamicSize(f, c, e) ==
            3 + 5 + 5 + 4 + 3 * numCodegens(c)
            + bitLength(e, c.codegenFreq)
            + c.codegenFreq[17] * 2 + c.codegenFreq[18] * 3 + c.codegenFreq[19] * 7
            + bitLength(f.literalEncoding, f.literalFreq)
            + bitLength(f.offsetEncoding, f.offsetFreq) + extraBits(f)
       \* f is what indexTokens counts, c the codegen of the code sizes,
       \* e the codegenEncoding
    IN CHOOSE r \in
         { CHOOSE q \in
             { CHOOSE p \in
                 { CHOOSE o \in
                     { \* the block written in the shortest of the three ways
                       IF storable /\ (Len(window) + 5) * 8 < Min(size.fixed, size.dynamic)
                       THEN writeStoredHeader(bits, Len(window), FALSE)
                            \* writeBytes
                            \o [k \in 1..(8 * Len(window)) |->
                                  (window[(k + 7) \div 8] \div (2 ^ ((k - 1) % 8))) % 2]
                       ELSE bits
                            \o (IF size.dynamic < size.fixed
                                THEN writeDynamicHeader(f.numLiterals, f.numOffsets,
                                                        numCodegens(c), c.codegen, e)
                                ELSE LowBits(2, 3))
                            \o writeTokens(tokens,
                                           IF size.dynamic < size.fixed
                                           THEN f.literalEncoding ELSE fixedLiteralEncoding,
                                           IF size.dynamic < size.fixed
                                           THEN f.offsetEncoding ELSE fixedOffsetEncoding) :
                       size \in {[fixed |-> fixedSize(f),
                                  dynamic |-> dynamicSize(f, c, e)]} } : TRUE :
                   e \in {generate(c.codegenFreq, 7)} } : TRUE :
               c \in {generateCodegen(f.numLiterals, f.numOffsets,
                                      f.literalEncoding, f.offsetEncoding)} } : TRUE :
           f \in {indexTokens(tokens)} } : TRUE

RECURSIVE writeBlocks(_, _, _)
\* the blocks from the k-th on, written one after the other
writeBlocks(bits, blocks, k) ==
    IF k > Len(blocks) THEN bits
    ELSE writeBlocks(writeBlock(bits, blocks[k].tokens, blocks[k].input), blocks, k + 1)

\* gzip.Writer: header, the DEFLATE stream, CRC-32 and length of the input.
\* Write hands the whole input to the compressor, which starts with the
\* first 2 * windowSize bytes in its window, nothing read and no match in
\* hand; Close ends the stream with the header of a last stored block of no
\* bytes.
gzipWriter(data) ==
    GzipHeader
    \o PackBits(writeStoredHeader(
                    writeBlocks(<<>>,
                                deflate(data, [index |-> 0, length |-> minMatchLength - 1,
                                               offset |-> 0, byteAvailable |-> FALSE,
                                               tokens |-> <<>>, done |-> FALSE, base |-> 0,
                                               windowEnd |-> Min(Len(data), 2 * windowSize),
                                               blockStart |-> 0, blocks |-> <<>>], 0),
                                1),
                    0, TRUE))
    \o GzipTrailer(data)

\* The chunks the specifications compress are short and of small bytes:
\* what gzipWriter writes for each of them is computed once.
KnownOutputs ==
    [d \in UNION {[1..m -> 1..MaxPlainLen] : m \in 1..ChunkSize}
           \cup {<<b>> : b \in 1..(2 * (MaxRecords + QueueSize + Concurrency))} |->
       gzipWriter(d)] @@ <<>>

\* Compressor.Compress: an empty input is returned as it is; any other goes
\* through the gzip writer
Compress(data) ==
    IF SliceLen(data) = 0 THEN Ok(data)
    ELSE Ok(CHOOSE r \in { IF data \in DOMAIN known THEN known[data]
                           ELSE gzipWriter(data) : known \in {KnownOutputs} } : TRUE)

\* ---- compress/flate reader ----
RECURSIVE symbolsByLength(_, _)
\* the symbols that have a code, by code length and then by value
symbolsByLength(lengths, n) ==
    IF n = 0 THEN <<>>
    ELSE symbolsByLength(lengths, n - 1)
         \o SelectSeq([i \in 1..Len(lengths) |-> i - 1], LAMBDA s : lengths[s + 1] = n)

\* huffmanDecoder.init: the canonical code of the given code lengths
\* (lengths[s + 1] is the length of symbol s, 0 for no code).  It is refused
\* unless it is complete, or empty, or one code of one bit.  The tables are
\* kept as sequences of their values.
huffmanInit(lengths) ==
    LET used == {lengths[i] : i \in 1..Len(lengths)} \ {0}
        count == [n \in 1..15 |-> Cardinality({i \in 1..Len(lengths) : lengths[i] = n})]
        minLen == IF used = {} THEN 0 ELSE CHOOSE n \in used : \A m \in used : n <= m
        maxLen == IF used = {} THEN 0 ELSE CHOOSE n \in used : \A m \in used : m <= n
        nextcode[n \in 1..15] == IF n = 1 THEN 0 ELSE 2 * (nextcode[n - 1] + count[n - 1])
        index[n \in 1..15] == IF n = 1 THEN 0 ELSE index[n - 1] + count[n - 1]
        code == IF used = {} THEN 0 ELSE nextcode[maxLen] + count[maxLen]
    IN [ok |-> used = {} \/ code = 2 ^ maxLen \/ (code = 1 /\ maxLen = 1),
        min |-> minLen, count |-> <<>> \o count,
        first |-> <<>> \o [n \in 1..15 |-> nextcode[n]],
        index |-> <<>> \o [n \in 1..15 |-> index[n]],
        symbol |-> symbolsByLength(lengths, 15)]

fixedHuffmanDecoder ==
    huffmanInit([i \in 1..288 |-> IF i <= 144 THEN 8 ELSE IF i <= 256 THEN 9
                                  ELSE IF i <= 280 THEN 7 ELSE 8])

\* huffSym: at least h.min bits must be there; then the one code that the
\* next bits spell.  No code (empty or one-code decoder) and end of input
\* are both errors.
huffSym(h, data, p) ==
    IF h.min = 0 \/ 8 * Len(data) - p < h.min THEN [ok |-> FALSE, sym |-> 0, pos |-> p]
    ELSE CHOOSE r \in
      { LET code(n) == reverseBits(w % (2 ^ n), n)
            lens == {n \in 1..15 : /\ h.count[n] > 0
                                   /\ p + n <= 8 * Len(data)
                                   /\ code(n) - h.first[n] \in 0..(h.count[n] - 1)}
        IN IF lens = {} THEN [ok |-> FALSE, sym |-> 0, pos |-> p]
           ELSE CHOOSE s \in
                  { [ok |-> TRUE, pos |-> p + n,
                     sym |-> h.symbol[h.index[n] + code(n) - h.first[n] + 1]] :
                      n \in lens } : TRUE :
          w \in {readBits(data, p, 15)} } : TRUE

\* one round of the loop of readHuffman over the code lengths: a length, or
\* a repeat of the previous length (16) or of zero (17, 18)
codeLengthStep(h, n, data, c) ==
    LET x == huffSym(h, data, c.pos)
        nb == IF x.sym = 16 THEN 2 ELSE IF x.sym = 17 THEN 3 ELSE 7
        rep == (IF x.sym = 18 THEN 11 ELSE 3) + readBits(data, x.pos, nb)
        b == IF x.sym = 16 THEN c.bits[Len(c.bits)] ELSE 0
    IN IF ~x.ok THEN [c EXCEPT !.ok = FALSE]
       ELSE IF x.sym < 16 THEN [c EXCEPT !.bits = Append(@, x.sym), !.pos = x.pos]
       ELSE IF x.sym = 16 /\ c.bits = <<>> THEN [c EXCEPT !.ok = FALSE]
       ELSE IF x.pos + nb > 8 * Len(data) THEN [c EXCEPT !.ok = FALSE]
       ELSE IF Len(c.bits) + rep > n THEN [c EXCEPT !.ok = FALSE]
       ELSE [c EXCEPT !.bits = @ \o [j \in 1..rep |-> b], !.pos = x.pos + nb]

RECURSIVE codeLengths(_, _, _, _)
codeLengths(h, n, data, c) ==
    IF ~c.ok \/ Len(c.bits) = n THEN c
    ELSE CHOOSE r \in { codeLengths(h, n, data, e) : e \in {codeLengthStep(h, n, data, c)} } : TRUE

\* readHuffman: the header of a block with dynamic codes, from bit p
readHuffman(data, p) ==
    LET bad == [ok |-> FALSE, pos |-> p, hl |-> fixedHuffmanDecoder, hd |-> fixedHuffmanDecoder]
    IN IF p + 14 > 8 * Len(data) THEN bad
       ELSE LET nlit == readBits(data, p, 5) + 257
                ndist == readBits(data, p + 5, 5) + 1
                nclen == readBits(data, p + 10, 4) + 4
                q == p + 14 + 3 * nclen
                place(s) == CHOOSE j \in 1..19 : codeOrder[j] = s
                codebits == [k \in 1..19 |->
                               IF place(k - 1) <= nclen
                               THEN readBits(data, p + 14 + 3 * (place(k - 1) - 1), 3)
                               ELSE 0]
            IN IF nlit > maxNumLit \/ ndist > maxNumDist \/ q > 8 * Len(data) THEN bad
               ELSE CHOOSE r \in
                 { IF ~h.ok THEN bad
                   ELSE CHOOSE t \in
                     { IF ~c.ok THEN bad
                       ELSE LET h1 == huffmanInit(SubSeq(c.bits, 1, nlit))
                                h2 == huffmanInit(SubSeq(c.bits, nlit + 1, nlit + ndist))
                                eob == c.bits[endBlockMarker + 1]
                            IN IF ~h1.ok \/ ~h2.ok THEN bad
                               ELSE [ok |-> TRUE, pos |-> c.pos,
                                     hl |-> [h1 EXCEPT !.min = IF @ < eob THEN eob ELSE @],
                                     hd |-> h2] :
                         c \in {codeLengths(h, nlit + ndist, data,
                                            [ok |-> TRUE, pos |-> q, bits |-> <<>>])} } : TRUE :
                     h \in {huffmanInit(codebits)} } : TRUE

\* the decoder: "block" before a block header, "huffman" inside a coded
\* block, "eof" after the final block, "limit" when the copy has ended at
\* MaxDecompressionSize bytes, "error" otherwise.  base is the length of the
\* output before this member, fixed tells that distances are five plain
\* bits, hl and hd are the decoders of the block.
\* The decoder's window: it hands its output to Read when the window is
\* full, at an empty stored block, at the end of the stream and on an error.
\* In compress/flate it is 32768 bytes and the limit of Decompress is 3200
\* windows; here the limit is one window, and a later member whose
\* predecessors gave output starts off the window grid, as it can there.
maxMatchOffset == MaxDecompressionSize
\* the output after more bytes.  The LimitReader asks Read for no more than
\* is left of the limit: output that goes past the limit is cut there and
\* Read returns without an error, whatever the decoder met after the cut;
\* output that ends at the limit on a full window is handed over without an
\* error as well; in both cases nothing more is asked for.  Output that
\* ends at the limit inside a window waits for what the decoder meets next.
dictWrite(f, bytes) ==
    LET all == f.out \o bytes
    IN IF \/ Len(all) > MaxDecompressionSize
          \/ /\ Len(all) = MaxDecompressionSize
             /\ (MaxDecompressionSize - f.base) % maxMatchOffset = 0
       THEN [f EXCEPT !.st = "limit", !.out = SubSeq(all, 1, MaxDecompressionSize)]
       ELSE [f EXCEPT !.out = all]

finishBlock(f) == [f EXCEPT !.st = IF f.final THEN "eof" ELSE "block"]

\* dataBlock: a stored block; the bits left of the current byte are dropped.
\* An empty stored block hands over the output so far.
dataBlock(data, f, p) ==
    LET at == (p + 7) \div 8
        n == data[at + 1] + 256 * data[at + 2]
        nn == data[at + 3] + 256 * data[at + 4]
        have == IF Len(data) - (at + 4) < n THEN Len(data) - (at + 4) ELSE n
        g == dictWrite([f EXCEPT !.pos = 8 * (at + 4 + have)], SubSeq(data, at + 5, at + 4 + have))
    IN IF at + 4 > Len(data) THEN [f EXCEPT !.st = "error"]
       ELSE IF nn # 65535 - n THEN [f EXCEPT !.st = "error"]
       ELSE IF n = 0 /\ ~f.final /\ Len(f.out) = MaxDecompressionSize
            THEN [f EXCEPT !.st = "limit"]
       ELSE IF g.st = "limit" THEN g
       ELSE IF have < n THEN [g EXCEPT !.st = "error"]
       ELSE finishBlock(g)

\* nextBlock: the three header bits and what follows them
nextBlock(data, f) ==
    IF f.pos + 3 > 8 * Len(data) THEN [f EXCEPT !.st = "error"]
    ELSE LET g == [f EXCEPT !.final = (readBits(data, f.pos, 1) = 1), !.pos = f.pos + 3]
             typ == readBits(data, f.pos + 1, 2)
         IN IF typ = 0 THEN dataBlock(data, g, g.pos)
            ELSE IF typ = 1
                 THEN [g EXCEPT !.st = "huffman", !.fixed = TRUE,
                                !.hl = fixedHuffmanDecoder, !.hd = fixedHuffmanDecoder]
            ELSE IF typ = 2
                 THEN CHOOSE r \in
                        { IF ~h.ok THEN [g EXCEPT !.st = "error"]
                          ELSE [g EXCEPT !.st = "huffman", !.fixed = FALSE, !.pos = h.pos,
                                         !.hl = h.hl, !.hd = h.hd] :
                            h \in {readHuffman(data, g.pos)} } : TRUE
            ELSE [g EXCEPT !.st = "error"]

\* the length of a match from its symbol v (257..285) and where its extra
\* bits end
matchLength(data, v, p) ==
    LET n == IF v < 265 \/ v = 285 THEN 0 ELSE (v - 261) \div 4
        base == IF v < 265 THEN v - (257 - 3)
                ELSE IF v < 269 THEN v * 2 - (265 * 2 - 11)
                ELSE IF v < 273 THEN v * 4 - (269 * 4 - 19)
                ELSE IF v < 277 THEN v * 8 - (273 * 8 - 35)
                ELSE IF v < 281 THEN v * 16 - (277 * 16 - 67)
                ELSE IF v < 285 THEN v * 32 - (281 * 32 - 131)
                ELSE 258
    IN IF p + n > 8 * Len(data) THEN [ok |-> FALSE, val |-> 0, pos |-> p]
       ELSE [ok |-> TRUE, val |-> base + readBits(data, p, n), pos |-> p + n]

\* the distance of a match: its code (five plain bits under the fixed
\* codes) and its extra bits
matchDist(data, f, p) ==
    LET bad == [ok |-> FALSE, val |-> 0, pos |-> p]
        c == IF f.fixed
             THEN IF p + 5 > 8 * Len(data) THEN [ok |-> FALSE, sym |-> 0, pos |-> p]
                  ELSE [ok |-> TRUE, sym |-> reverseBits(readBits(data, p, 5), 5), pos |-> p + 5]
             ELSE huffSym(f.hd, data, p)
        nb == (c.sym - 2) \div 2
    IN IF ~c.ok THEN bad
       ELSE IF c.sym < 4 THEN [ok |-> TRUE, val |-> c.sym + 1, pos |-> c.pos]
       ELSE IF c.sym >= maxNumDist THEN bad
       ELSE IF c.pos + nb > 8 * Len(data) THEN bad
       ELSE [ok |-> TRUE, pos |-> c.pos + nb,
             val |-> (2 ^ (nb + 1)) + 1 + (c.sym % 2) * (2 ^ nb) + readBits(data, c.pos, nb)]

\* one symbol of huffmanBlock: a literal, the end of the block or a match
\* (copyHistory: bytes that repeat the output from the distance back)
huffmanBlock(data, f) ==
    CHOOSE r \in
      { IF ~v.ok THEN [f EXCEPT !.st = "error"]
        ELSE IF v.sym < endBlockMarker THEN dictWrite([f EXCEPT !.pos = v.pos], <<v.sym>>)
        ELSE IF v.sym = endBlockMarker THEN finishBlock([f EXCEPT !.pos = v.pos])
        ELSE IF v.sym >= maxNumLit THEN [f EXCEPT !.st = "error"]
        ELSE CHOOSE t \in
               { IF ~l.ok THEN [f EXCEPT !.st = "error"]
                 ELSE CHOOSE u \in
                        { IF ~d.ok \/ d.val > Min(Len(f.out) - f.base, maxMatchOffset)
                          THEN [f EXCEPT !.st = "error"]
                          ELSE dictWrite([f EXCEPT !.pos = d.pos],
                                         [i \in 1..l.val |->
                                            f.out[Len(f.out) - d.val + 1
                                                  + ((i - 1) % d.val)]]) :
                            d \in {matchDist(data, f, l.pos)} } : TRUE :
                   l \in {matchLength(data, v.sym, v.pos)} } : TRUE :
          v \in {huffSym(f.hl, data, f.pos)} } : TRUE

RECURSIVE inflate(_, _)
\* the decoder run until it stops
inflate(data, f) ==
    IF f.st \notin {"block", "huffman"} THEN f
    ELSE CHOOSE r \in
           { inflate(data, g) :
               g \in {IF f.st = "block" THEN nextBlock(data, f) ELSE huffmanBlock(data, f)} } : TRUE

\* ---- compress/gzip reader ----
\* readString: a zero-terminated string of at most 512 bytes with its zero
readString(data, at) ==
    LET ends == {k \in 1..512 : at + k <= Len(data) /\ data[at + k] = 0}
    IN IF ends = {} THEN [ok |-> FALSE, pos |-> at]
       ELSE [ok |-> TRUE, pos |-> at + (CHOOSE k \in ends : \A j \in ends : k <= j)]

\* Reader.readHeader of the member that starts after `at` bytes: ID1, ID2
\* and CM are fixed; FLG announces an extra field (4), a name (8), a comment
\* (16) and a CRC-16 of the header (2), which are read in this order
readHeader(data, at) ==
    LET bad == [ok |-> FALSE, pos |-> at]
        flg == data[at + 4]
        has(bit) == (flg \div bit) % 2 = 1
        afterExtra ==
            IF ~has(4) THEN [ok |-> TRUE, pos |-> at + 10]
            ELSE IF at + 12 > Len(data) THEN bad
            ELSE LET n == data[at + 11] + 256 * data[at + 12]
                 IN IF at + 12 + n > Len(data) THEN bad ELSE [ok |-> TRUE, pos |-> at + 12 + n]
        afterName ==
            IF ~afterExtra.ok \/ ~has(8) THEN afterExtra ELSE readString(data, afterExtra.pos)
        afterComment ==
            IF ~afterName.ok \/ ~has(16) THEN afterName ELSE readString(data, afterName.pos)
        q == afterComment.pos
    IN IF at + 10 > Len(data) THEN bad
       ELSE IF SubSeq(data, at + 1, at + 3) # SubSeq(GzipHeader, 1, 3) THEN bad
       ELSE IF ~afterComment.ok \/ ~has(2) THEN afterComment
       ELSE IF q + 2 > Len(data) THEN bad
       ELSE IF SubSeq(data, q + 1, q + 2) # SubSeq(ChecksumIEEE(SubSeq(data, at + 1, q)), 1, 2)
            THEN bad
       ELSE [ok |-> TRUE, pos |-> q + 2]

RECURSIVE gzipRead(_, _, _)
\* Reader.Read to the end, through the LimitReader: the member whose DEFLATE
\* stream starts after `at` bytes is decoded onto out; its trailer must hold
\* the CRC-32 and the length of what it gave; after it the input ends or
\* the header of another member follows (multistream).  The Read that
\* returns the last bytes of a member also checks its trailer and reads the
\* next header; when those bytes end at the limit, the next member is not
\* decoded.
gzipRead(data, at, out) ==
    CHOOSE r \in
      { IF f.st = "limit" THEN Ok(f.out)
        ELSE IF f.st = "error" THEN Fail("ErrDecompressionFailed")
        ELSE LET t == (f.pos + 7) \div 8
             IN IF t + 8 > Len(data) THEN Fail("ErrDecompressionFailed")
                ELSE IF SubSeq(data, t + 1, t + 8)
                        # GzipTrailer(SubSeq(f.out, f.base + 1, Len(f.out)))
                     THEN Fail("ErrDecompressionFailed")
                ELSE IF t + 8 = Len(data) THEN Ok(f.out)
                ELSE CHOOSE s \in
                       { IF ~h.ok THEN Fail("ErrDecompressionFailed")
                         ELSE IF Len(f.out) = MaxDecompressionSize THEN Ok(f.out)
                         ELSE gzipRead(data, h.pos, f.out) :
                           h \in {readHeader(data, t + 8)} } : TRUE :
          f \in {inflate(data, [st |-> "block", pos |-> 8 * at, out |-> out,
                                 base |-> Len(out), final |-> FALSE, fixed |-> TRUE,
                                 hl |-> fixedHuffmanDecoder,
                                 hd |-> fixedHuffmanDecoder])} } : TRUE

\* gzip.NewReader reads the first header; the copy then reads to the end
Decompress(data) ==
    IF SliceLen(data) = 0 THEN Ok(data)
    ELSE CHOOSE r \in
           { CHOOSE q \in
               { IF ~h.ok THEN Fail("ErrDecompressionFailed") ELSE gzipRead(d, h.pos, <<>>) :
                   h \in {readHeader(d, 0)} } : TRUE :
               d \in {data} } : TRUE

(***************************************************************************)
(* Padder (PKCS#7).                                                        *)
(***************************************************************************)
\* mutation of Pad: input that already fills whole blocks gets no padding
Pad_NoFullBlock(data) ==
    IF data = NilBytes THEN Fail("ErrPaddingFailed") ELSE
    LET padding == (PaddingSize - (Len(data) % PaddingSize)) % PaddingSize
    IN Ok(data \o [i \in 1..padding |-> padding])

\* mutation of Pad: one padding byte whatever the length of the input
Pad_OneByte(data) ==
    IF data = NilBytes THEN Fail("ErrPaddingFailed") ELSE Ok(data \o <<1>>)

Pad(data) ==
    IF data = NilBytes THEN Fail("ErrPaddingFailed") ELSE
    LET padding == PaddingSize - (Len(data) % PaddingSize)
    IN Ok(data \o [i \in 1..padding |-> padding])

Unpad(data) ==
    IF SliceLen(data) = 0 THEN Fail("ErrUnpaddingFailed")
    ELSE IF Len(data) % PaddingSize # 0 THEN Fail("ErrUnpaddingFailed")
    ELSE LET padding == data[Len(data)]
         IN IF padding = 0 \/ padding > PaddingSize THEN Fail("ErrUnpaddingFailed")
            ELSE IF padding > Len(data) THEN Fail("ErrUnpaddingFailed")
            ELSE IF \E i \in (Len(data) - padding + 1)..Len(data) : data[i] # padding
                 THEN Fail("ErrUnpaddingFailed")
            ELSE Ok(SubSeq(data, 1, Len(data) - padding))

(***************************************************************************)
(* AES-GCM.  A sealed buffer is nonce || ct || tag; ct and tag are         *)
(* symbolic terms over (key, nonce, plaintext).  `extra` counts bytes that *)
(* follow the tag in the buffer handed to Decrypt.                         *)
(***************************************************************************)
GcmCt(key, nonce, pt) == [k |-> key, n |-> nonce, pt |-> pt]
GcmTag(key, nonce, ct) == [k |-> key, n |-> nonce, c |-> ct]

SealedLen(c) == NonceSize + Len(c.ct.pt) + TagSize + c.extra

AESEncrypt(key, nonce, plaintext) ==
    IF SliceLen(plaintext) = 0 THEN Fail("ErrEmptyPlaintext")
    ELSE LET ct == GcmCt(key, nonce, plaintext)
         IN Ok([nonce |-> nonce, ct |-> ct, tag |-> GcmTag(key, nonce, ct), extra |-> 0])

AESDecrypt(key, c) ==
    IF SealedLen(c) = 0 THEN Fail("ErrEmptyCiphertext")
    ELSE IF SealedLen(c) < NonceSize THEN Fail("ErrDecryptionFailed")
    ELSE IF c.extra = 0 /\ c.tag = GcmTag(key, c.nonce, c.ct)
              /\ c.ct.k = key /\ c.ct.n = c.nonce
         THEN Ok(c.ct.pt)
    ELSE Fail("ErrDecryptionFailed")

(***************************************************************************)
(* Reed-Solomon encoder.  The encoded buffer is k data shards followed by  *)
(* m parity shards of equal size; the splitter zero-fills the last data    *)
(* shard.  Decode finds every shard present, so Reconstruct rebuilds       *)
(* nothing and the k data shards are returned as they are.  `parityErr`    *)
(* counts the stored parity bytes that differ from the parity of the data  *)
(* shards; Decode never looks at them.                                     *)
(***************************************************************************)
ShardSize(n) == (n + DataShards - 1) \div DataShards
\* constants.MaxDataLen: 1 GiB in the code, far above the sealed 1 MB chunk;
\* here just above the sealed buffer of a whole chunk
MaxDataLen ==
    NonceSize + TagSize + DataShards
    + PaddingSize * ((Len(Compress([i \in 1..ChunkSize |-> 255]).val) \div PaddingSize) + 1)
EncodedLen(e) == (DataShards + ParityShards) * e.shardSize

\* isValidDataSize: len(data) != 0 && len(data) <= MaxDataLen
Encode(sealed) ==
    IF SealedLen(sealed) = 0 \/ SealedLen(sealed) > MaxDataLen
    THEN Fail("ErrEncodingFailed")
    ELSE LET ss == ShardSize(SealedLen(sealed))
         IN Ok([data |-> sealed, shardSize |-> ss,
                zeros |-> DataShards * ss - SealedLen(sealed), parityErr |-> 0])

Decode(e) ==
    IF EncodedLen(e) = 0 \/ EncodedLen(e) % (DataShards + ParityShards) # 0
    THEN Fail("ErrDecodingFailed")
    ELSE Ok([e.data EXCEPT !.extra = e.data.extra + e.zeros])

(***************************************************************************)
(* Chunk processor: compress, pad, seal, encode and the inverse.           *)
(***************************************************************************)
\* each stage is given its input, the result of the stage before, bound to
\* its value
ProcessorEncrypt(key, nonce, data) ==
    CHOOSE r \in
      { IF ~compressed.ok THEN Fail("compression failed") ELSE
        CHOOSE p \in
          { IF ~padded.ok THEN Fail("padding failed") ELSE
            CHOOSE e \in
              { IF ~encrypted.ok THEN Fail("encryption failed") ELSE
                CHOOSE c \in
                  { IF ~encoded.ok THEN Fail("encoding failed") ELSE encoded :
                    encoded \in {Encode(encrypted.val)} } : TRUE :
                encrypted \in {AESEncrypt(key, nonce, padded.val)} } : TRUE :
            padded \in {Pad(compressed.val)} } : TRUE :
        compressed \in {Compress(data)} } : TRUE

ProcessorDecrypt(key, data) ==
    LET decoded == Decode(data) IN
    IF ~decoded.ok THEN Fail("decoding failed") ELSE
    LET decrypted == AESDecrypt(key, decoded.val) IN
    IF ~decrypted.ok THEN Fail("decryption failed") ELSE
    LET unpadded == Unpad(decrypted.val) IN
    IF ~unpadded.ok THEN Fail("unpadding failed") ELSE
    LET decompressed == Decompress(unpadded.val) IN
    IF ~decompressed.ok THEN Fail("decompression failed") ELSE decompressed


(***************************************************************************)
(* State.                                                                  *)
(***************************************************************************)
VARIABLES
    \* --- stream engine (StreamProcessor and its pipeline) ---
    mode,          \* config.Processing: "Encryption" or "Decryption"
    key,           \* config.Key
    input,         \* the io.Reader: plaintext bytes, or a sequence of chunk records
    srcFail,       \* the source returns an I/O error instead of EOF at its end
    writeFailAt,   \* the output's k-th Write call fails (0: never)
    canCancel,     \* the caller may invoke Cancel() during this run
    eofWithData,   \* the io.Reader returns its last bytes together with io.EOF
    rpc,           \* reader stage position
    rpos,          \* bytes / records consumed from input
    rindex,        \* the reader's local `index`
    rtask,         \* task the reader is sending
    rerr,          \* error readTasks returned
    taskChan,      \* s.taskChan
    taskClosed,
    wpc,           \* per worker: "recv", "send", "exit"
    wres,          \* per worker: result being sent
    ppc,           \* runWorkers: "wait" (pool.Process), "done"
    resultChan,    \* s.resultChan
    resultClosed,
    bufResults,    \* Buffer.results: index -> TaskResult
    bufNext,       \* Buffer.next
    ready,         \* results writeReadyResults still has to write
    flushing,      \* the writer is in flushRemainingResults
    wrpc,          \* writer stage position
    wrerr,         \* error writeResults returned
    out,           \* the chunks the writer has written whole, in write order
    outPrefix,     \* a length prefix written after them whose data write failed
    progress,      \* the arguments of the progressCallback calls, in call order
    errChan,       \* pipeline.errChan
    ctxDone,       \* s.ctx is cancelled
    doneClosed,    \* the `done` channel of waitForCompletion is closed
    spc,           \* supervisor (Process / waitForCompletion) position
    ret,           \* the error Process returns
    \* --- history of the run ---
    extCancel,     \* Cancel() was invoked
    cancelMidRun,  \* ... while a stage was still running
    reported,      \* errors the stages handed to sendError, in order
    takenLog,      \* indices of the tasks workers received, in order
    chunkReads,    \* Read calls made on a chunk-record source (Decryption direction)
    sentTasks,     \* the tasks the reader has put on taskChan, in send order
    \* --- EncryptFile / DecryptFile ---
    opc,           \* position of the file operation
    plain,         \* content of the source plaintext file
    encPw,         \* password given to EncryptFile
    decPw,         \* password given to DecryptFile
    encFile,       \* the ciphertext file: header and chunk records
    decFile,       \* the file DecryptFile writes
    hdr,           \* header DecryptFile parsed
    opKey,         \* key the running operation derived
    opErr,         \* error the running operation returned
    verifyCalls,   \* calls of Header.VerifyKey in DecryptFile
    srcWiped,      \* secure deletion overwrote bytes of the operation's source file
    srcRemoved,    \* CLIProcessor removed the source file of its operation
    tampered,      \* the header field changed in storage after encryption ("": none)
    \* --- a single call of a chunk-level function ---
    call,          \* the function applied, its arguments and what it returned
    \* --- the channel-only pipeline of package worker ---
    wp             \* Worker.runPipeline: its channels and goroutine positions

cfgVars == <<mode, key, input, srcFail, writeFailAt, canCancel, eofWithData>>
readerVars == <<rpc, rpos, rindex, rtask, rerr, chunkReads, sentTasks>>
workerVars == <<wpc, wres, ppc, takenLog>>
writerVars == <<bufResults, bufNext, ready, flushing, wrpc, wrerr, out, outPrefix, progress>>
supVars == <<doneClosed, spc, ret>>
chanVars == <<taskChan, taskClosed, resultChan, resultClosed>>
errVars == <<errChan, reported>>
ctxVars == <<ctxDone, extCancel, cancelMidRun>>

engineVars == <<cfgVars, readerVars, workerVars, writerVars, supVars, chanVars,
                errVars, ctxVars>>

opVars == <<opc, plain, encPw, decPw, encFile, decFile, hdr, opKey, opErr, verifyCalls,
            srcWiped, srcRemoved, tampered>>
fileVars == <<opVars, call, wp>>

vars == <<engineVars, fileVars>>

(***************************************************************************)
(* Error values: <<stage prefix, cause>>.                                  *)
(***************************************************************************)
NoError == <<"", "nil">>
ErrCanceled == <<"", "operation was canceled">>
CtxErr == "context canceled"
NoTask == [Index |-> 0, Data |-> <<>>]
NoResult == [Index |-> 0, Data |-> <<>>, Size |-> 0, Err |-> "nil"]

StagesDone == rpc = "done" /\ ppc = "done" /\ wrpc = "done"

(***************************************************************************)
(* Reader stage: runReader / readTasks.                                    *)
(***************************************************************************)
\* checkCancellation at the top of the read loop
ReaderCheck ==
    /\ rpc = "check"
    /\ IF ctxDone
       THEN rerr' = CtxErr /\ rpc' = "err"
       ELSE rpc' = "read" /\ UNCHANGED rerr
    /\ UNCHANGED <<cfgVars, rpos, rindex, rtask, chunkReads, sentTasks, workerVars, writerVars,
                   supVars, chanVars, errVars, ctxVars, fileVars>>

\* mutation of ReadPlain: a Read that fills less than the whole buffer is
\* taken for the end of the stream
ReadPlain_ShortReadIsEOF ==
    IF Len(input) - rpos < ChunkSize
    THEN /\ IF srcFail THEN rerr' = "read failed" /\ rpc' = "err"
                       ELSE rpc' = "exit" /\ UNCHANGED rerr
         /\ UNCHANGED <<rpos, rtask>>
    ELSE /\ rtask' = [Index |-> rindex, Data |-> SubSeq(input, rpos + 1, rpos + ChunkSize)]
         /\ rpos' = rpos + ChunkSize
         /\ rpc' = "send"
         /\ UNCHANGED rerr

\* readForEncryption: one reader.Read(buffer) and the task built from it.
\* The source returns (n, nil), (0, io.EOF) or (0, err); a source with
\* eofWithData returns its last bytes as (n, io.EOF), and the code leaves on
\* io.EOF before it looks at n
ReadPlain ==
    IF rpos = Len(input)
    THEN /\ IF srcFail THEN rerr' = "read failed" /\ rpc' = "err"
                       ELSE rpc' = "exit" /\ UNCHANGED rerr
         /\ UNCHANGED <<rpos, rtask>>
    ELSE LET n == Min(ChunkSize, Len(input) - rpos)
         IN IF eofWithData /\ ~srcFail /\ rpos + n = Len(input)
            THEN /\ rpos' = rpos + n
                 /\ rpc' = "exit"
                 /\ UNCHANGED <<rtask, rerr>>
            ELSE /\ rtask' = [Index |-> rindex, Data |-> SubSeq(input, rpos + 1, rpos + n)]
                 /\ rpos' = rpos + n
                 /\ rpc' = "send"
                 /\ UNCHANGED rerr

\* mutation of ReadRecord: a zero-length record is sent as a task of its own
ReadRecord_ZeroTakesIndex ==
    IF rpos = Len(input)
    THEN /\ IF srcFail THEN rerr' = "chunk size read failed" /\ rpc' = "err"
                       ELSE rpc' = "exit" /\ UNCHANGED rerr
         /\ UNCHANGED <<rpos, rtask>>
    ELSE LET rec == input[rpos + 1]
         IN IF rec.len > MaxInt32
            THEN rerr' = "ErrChunkTooLarge" /\ rpc' = "err" /\ UNCHANGED <<rpos, rtask>>
            ELSE IF ~rec.complete
            THEN rerr' = "chunk data read failed" /\ rpc' = "err"
                 /\ UNCHANGED <<rpos, rtask>>
            ELSE /\ rtask' = [Index |-> rindex, Data |-> rec.data]
                 /\ rpos' = rpos + 1
                 /\ rpc' = "send"
                 /\ UNCHANGED rerr

\* readForDecryption: readChunkSize, the zero-length skip, readChunkData
ReadRecord ==
    IF rpos = Len(input)
    THEN /\ IF srcFail THEN rerr' = "chunk size read failed" /\ rpc' = "err"
                       ELSE rpc' = "exit" /\ UNCHANGED rerr
         /\ UNCHANGED <<rpos, rtask>>
    ELSE LET rec == input[rpos + 1]
         IN IF rec.len = 0
            THEN rpos' = rpos + 1 /\ rpc' = "check" /\ UNCHANGED <<rtask, rerr>>
            ELSE IF rec.len > MaxInt32
            THEN rerr' = "ErrChunkTooLarge" /\ rpc' = "err" /\ UNCHANGED <<rpos, rtask>>
            ELSE IF ~rec.complete
            THEN rerr' = "chunk data read failed" /\ rpc' = "err"
                 /\ UNCHANGED <<rpos, rtask>>
            ELSE /\ rtask' = [Index |-> rindex, Data |-> rec.data]
                 /\ rpos' = rpos + 1
                 /\ rpc' = "send"
                 /\ UNCHANGED rerr

ReaderRead ==
    /\ rpc = "read"
    /\ chunkReads' = IF mode = "Decryption" THEN chunkReads + 1 ELSE chunkReads
    /\ IF mode = "Encryption" THEN ReadPlain ELSE ReadRecord
    /\ UNCHANGED <<cfgVars, rindex, sentTasks, workerVars, writerVars, supVars, chanVars,
                   errVars, ctxVars, fileVars>>

\* sendTask: case s.taskChan <- task
ReaderSendTask ==
    /\ rpc = "send"
    /\ Len(taskChan) < QueueSize
    /\ taskChan' = Append(taskChan, rtask)
    /\ sentTasks' = Append(sentTasks, rtask)
    /\ rindex' = rindex + 1
    /\ rpc' = "check"
    /\ UNCHANGED <<cfgVars, rpos, rtask, rerr, chunkReads, workerVars, writerVars, supVars,
                   taskClosed, resultChan, resultClosed, errVars, ctxVars, fileVars>>

\* sendTask: case <-s.ctx.Done()
ReaderSendCanceled ==
    /\ rpc = "send"
    /\ ctxDone
    /\ rerr' = CtxErr
    /\ rpc' = "err"
    /\ UNCHANGED <<cfgVars, rpos, rindex, rtask, chunkReads, sentTasks, workerVars, writerVars,
                   supVars, chanVars, errVars, ctxVars, fileVars>>

\* sendError: case p.errChan <- err
ReaderSendError ==
    /\ rpc = "err"
    /\ Len(errChan) < ErrChanCap
    /\ errChan' = Append(errChan, <<"reader error", rerr>>)
    /\ reported' = Append(reported, <<"reader error", rerr>>)
    /\ rpc' = "exit"
    /\ UNCHANGED <<cfgVars, rpos, rindex, rtask, rerr, chunkReads, sentTasks, workerVars, writerVars,
                   supVars, chanVars, ctxVars, fileVars>>

\* sendError: case <-p.stream.ctx.Done()
ReaderDropError ==
    /\ rpc = "err"
    /\ ctxDone
    /\ reported' = Append(reported, <<"reader error", rerr>>)
    /\ rpc' = "exit"
    /\ UNCHANGED <<cfgVars, rpos, rindex, rtask, rerr, chunkReads, sentTasks, workerVars, writerVars,
                   supVars, chanVars, errChan, ctxVars, fileVars>>

\* the deferred close(taskChan) and wg.Done() of runReader
ReaderExit ==
    /\ rpc = "exit"
    /\ taskClosed' = TRUE
    /\ rpc' = "done"
    /\ UNCHANGED <<cfgVars, rpos, rindex, rtask, rerr, chunkReads, sentTasks, workerVars, writerVars,
                   supVars, taskChan, resultChan, resultClosed, errVars, ctxVars, fileVars>>

(***************************************************************************)
(* Worker stage: runWorkers / Pool.Process / Pool.pool / processTask.      *)
(***************************************************************************)
\* the processor is called once and the TaskResult built from what it
\* returned (r is bound to that value)
processTask(task, nonce) ==
    LET size(r) == IF mode = "Encryption" THEN Len(task.Data)
                   ELSE IF r.ok THEN Len(r.val) ELSE 0
    IN CHOOSE result \in
           { [Index |-> task.Index, Data |-> r.val, Size |-> size(r), Err |-> r.err] :
               r \in { IF mode = "Encryption"
                       THEN ProcessorEncrypt(key, nonce, task.Data)
                       ELSE ProcessorDecrypt(key, task.Data) } } : TRUE

\* pool: case task, ok := <-tasks with ok; the task is processed
WorkerRecv(w) ==
    /\ wpc[w] = "recv"
    /\ taskChan # <<>>
    /\ \E nonce \in Nonces :
         wres' = [wres EXCEPT ![w] = processTask(Head(taskChan), nonce)]
    /\ taskChan' = Tail(taskChan)
    /\ takenLog' = Append(takenLog, Head(taskChan).Index)
    /\ wpc' = [wpc EXCEPT ![w] = "send"]
    /\ UNCHANGED <<cfgVars, readerVars, ppc, writerVars, supVars, taskClosed, resultChan,
                   resultClosed, errVars, ctxVars, fileVars>>

\* pool: case task, ok := <-tasks with !ok
WorkerTasksClosed(w) ==
    /\ wpc[w] = "recv"
    /\ taskChan = <<>>
    /\ taskClosed
    /\ wpc' = [wpc EXCEPT ![w] = "exit"]
    /\ UNCHANGED <<cfgVars, readerVars, wres, ppc, takenLog, writerVars, supVars,
                   chanVars, errVars, ctxVars, fileVars>>

\* pool: case results <- result
WorkerSend(w) ==
    /\ wpc[w] = "send"
    /\ Len(resultChan) < QueueSize
    /\ resultChan' = Append(resultChan, wres[w])
    /\ wpc' = [wpc EXCEPT ![w] = "recv"]
    /\ wres' = [wres EXCEPT ![w] = NoResult]
    /\ UNCHANGED <<cfgVars, readerVars, ppc, takenLog, writerVars, supVars, taskChan,
                   taskClosed, resultClosed, errVars, ctxVars, fileVars>>

\* pool: case <-ctx.Done(), in either select
WorkerCanceled(w) ==
    /\ wpc[w] \in {"recv", "send"}
    /\ ctxDone
    /\ wpc' = [wpc EXCEPT ![w] = "exit"]
    /\ wres' = [wres EXCEPT ![w] = NoResult]
    /\ UNCHANGED <<cfgVars, readerVars, ppc, takenLog, writerVars, supVars, chanVars,
                   errVars, ctxVars, fileVars>>

\* Pool.Process returns after wg.Wait(); runWorkers closes resultChan, wg.Done()
RunWorkersExit ==
    /\ ppc = "wait"
    /\ \A w \in Workers : wpc[w] = "exit"
    /\ resultClosed' = TRUE
    /\ ppc' = "done"
    /\ UNCHANGED <<cfgVars, readerVars, wpc, wres, takenLog, writerVars, supVars,
                   taskChan, taskClosed, resultChan, errVars, ctxVars, fileVars>>

(***************************************************************************)
(* Reorder buffer: Buffer.Add / Buffer.Flush.  results is a function from  *)
(* the buffered indices to their results.                                  *)
(***************************************************************************)
MapPut(m, k, v) == [x \in (DOMAIN m) \cup {k} |-> IF x = k THEN v ELSE m[x]]
MapDel(m, k) == [x \in (DOMAIN m) \ {k} |-> m[x]]
EmptyMap == [x \in {} |-> NoResult]

RECURSIVE Emit_NoDelete(_, _, _)
\* mutation of Emit: the emitted result is not deleted from the map
Emit_NoDelete(results, next, acc) ==
    IF next \in DOMAIN results
    THEN LET e == Emit_NoDelete(MapDel(results, next), next + 1,
                                Append(acc, results[next]))
         IN [e EXCEPT !.results = MapPut(e.results, next, results[next])]
    ELSE [results |-> results, next |-> next, ready |-> acc]

RECURSIVE Emit(_, _, _)
\* the emit loop of Add: while results[next] exists, append it, delete it, next++
Emit(results, next, acc) ==
    IF next \in DOMAIN results
    THEN Emit(MapDel(results, next), next + 1, Append(acc, results[next]))
    ELSE [results |-> results, next |-> next, ready |-> acc]

\* mutation of BufferAdd: Add emits one result at most (no loop)
BufferAdd_EmitOne(results, next, result) ==
    LET m == MapPut(results, result.Index, result)
    IN IF next \in DOMAIN m
       THEN [results |-> MapDel(m, next), next |-> next + 1, ready |-> <<m[next]>>]
       ELSE [results |-> m, next |-> next, ready |-> <<>>]

\* mutation of BufferAdd: the arriving result is emitted at once, unordered
BufferAdd_NoReorder(results, next, result) ==
    [results |-> results, next |-> next + 1, ready |-> <<result>>]

BufferAdd(results, next, result) ==
    Emit(MapPut(results, result.Index, result), next, <<>>)

RECURSIVE SortedSeq(_)
\* slices.Sort over the remaining indices
SortedSeq(S) ==
    IF S = {} THEN <<>>
    ELSE LET m == CHOOSE x \in S : \A y \in S : x <= y
         IN <<m>> \o SortedSeq(S \ {m})

BufferFlush(results) ==
    LET indices == SortedSeq(DOMAIN results)
    IN [results |-> EmptyMap,
        ready |-> [i \in 1..Len(indices) |-> results[indices[i]]]]

(***************************************************************************)
(* Writer stage: runWriter / writeResults / writeReadyResults.             *)
(***************************************************************************)
\* what writeResult puts on the output for one result
Written(result) ==
    IF mode = "Encryption"
    THEN [Index |-> result.Index,
          Data |-> [len |-> EncodedLen(result.Data), data |-> result.Data,
                    complete |-> TRUE]]
    ELSE [Index |-> result.Index, Data |-> result.Data]

\* writeResults: case result, ok := <-s.resultChan with ok
WriterRecv ==
    /\ wrpc = "select"
    /\ resultChan # <<>>
    /\ resultChan' = Tail(resultChan)
    /\ LET result == Head(resultChan)
           b == BufferAdd(bufResults, bufNext, result)
       IN IF result.Err # "nil"
          THEN /\ wrerr' = "processing chunk"
               /\ wrpc' = "err"
               /\ UNCHANGED <<bufResults, bufNext, ready>>
          ELSE /\ bufResults' = b.results
               /\ bufNext' = b.next
               /\ ready' = b.ready
               /\ wrpc' = IF b.ready = <<>> THEN "select" ELSE "write"
               /\ UNCHANGED wrerr
    /\ UNCHANGED <<cfgVars, readerVars, workerVars, flushing, out, outPrefix, progress, supVars, taskChan,
                   taskClosed, resultClosed, errVars, ctxVars, fileVars>>

\* writeResults: case result, ok := <-s.resultChan with !ok: flushRemainingResults
WriterRecvClosed ==
    /\ wrpc = "select"
    /\ resultChan = <<>>
    /\ resultClosed
    /\ LET b == BufferFlush(bufResults)
       IN /\ bufResults' = b.results
          /\ ready' = b.ready
          /\ flushing' = TRUE
          /\ wrpc' = IF b.ready = <<>> THEN "done" ELSE "write"
    /\ UNCHANGED <<cfgVars, readerVars, workerVars, bufNext, wrerr, out, outPrefix, progress, supVars,
                   chanVars, errVars, ctxVars, fileVars>>

\* writeResults: case <-s.ctx.Done()
WriterCanceled ==
    /\ wrpc = "select"
    /\ ctxDone
    /\ wrerr' = CtxErr
    /\ wrpc' = "err"
    /\ UNCHANGED <<cfgVars, readerVars, workerVars, bufResults, bufNext, ready, flushing,
                   out, outPrefix, progress, supVars, chanVars, errVars, ctxVars, fileVars>>

\* writeChunkSize: size < 0 || size > math.MaxUint32, the latter written on
\* the halves because 2^32 - 1 is beyond the integers TLC computes with
ChunkSizeOutOfRange(size) == size < 0 \/ size \div 2 > MaxInt32

\* Write calls writeResult makes for one result: the size prefix and the
\* data when encrypting, the data alone when decrypting
WritesPerChunk == IF mode = "Encryption" THEN 2 ELSE 1

\* the output after the size prefix of result was written and its data was not
PrefixOnly(result) == [Written(result).Data EXCEPT !.complete = FALSE]

\* mutation of WriterWrite: the progress callback runs before the writes
WriterWrite_ProgressBeforeWrite ==
    /\ wrpc = "write"
    /\ progress' = Append(progress, Head(ready).Size)
    /\ LET result == Head(ready)
           done == WritesPerChunk * Len(out)
       IN IF mode = "Encryption"
             /\ (ChunkSizeOutOfRange(EncodedLen(result.Data)) \/ writeFailAt = done + 1)
          THEN /\ wrerr' = "writing chunk size"
               /\ wrpc' = "err"
               /\ UNCHANGED <<ready, out, outPrefix>>
          ELSE IF writeFailAt = done + WritesPerChunk
          THEN /\ wrerr' = "writing chunk data"
               /\ wrpc' = "err"
               /\ outPrefix' = IF mode = "Encryption" THEN <<PrefixOnly(result)>> ELSE <<>>
               /\ UNCHANGED <<ready, out>>
          ELSE /\ out' = Append(out, Written(result))
               /\ ready' = Tail(ready)
               /\ wrpc' = IF Tail(ready) # <<>> THEN "write"
                          ELSE IF flushing THEN "done" ELSE "select"
               /\ UNCHANGED <<wrerr, outPrefix>>
    /\ UNCHANGED <<cfgVars, readerVars, workerVars, bufResults, bufNext, flushing,
                   supVars, chanVars, errVars, ctxVars, fileVars>>

\* writeReadyResults / writeResult for one result.  When encrypting,
\* writeChunkSize first: a length out of range or a failed Write of the
\* 4-byte prefix gives "writing chunk size".  Then the Write of the data: a
\* failure gives "writing chunk data" and leaves the prefix, when one was
\* written, on the output.  Then the progress callback with result.Size.
WriterWrite ==
    /\ wrpc = "write"
    /\ LET result == Head(ready)
           done == WritesPerChunk * Len(out)
       IN IF mode = "Encryption"
             /\ (ChunkSizeOutOfRange(EncodedLen(result.Data)) \/ writeFailAt = done + 1)
          THEN /\ wrerr' = "writing chunk size"
               /\ wrpc' = "err"
               /\ UNCHANGED <<ready, out, outPrefix, progress>>
          ELSE IF writeFailAt = done + WritesPerChunk
          THEN /\ wrerr' = "writing chunk data"
               /\ wrpc' = "err"
               /\ outPrefix' = IF mode = "Encryption" THEN <<PrefixOnly(result)>> ELSE <<>>
               /\ UNCHANGED <<ready, out, progress>>
          ELSE /\ out' = Append(out, Written(result))
               /\ progress' = Append(progress, result.Size)
               /\ ready' = Tail(ready)
               /\ wrpc' = IF Tail(ready) # <<>> THEN "write"
                          ELSE IF flushing THEN "done" ELSE "select"
               /\ UNCHANGED <<wrerr, outPrefix>>
    /\ UNCHANGED <<cfgVars, readerVars, workerVars, bufResults, bufNext, flushing,
                   supVars, chanVars, errVars, ctxVars, fileVars>>

\* sendError: case p.errChan <- err, then the deferred wg.Done()
WriterSendError ==
    /\ wrpc = "err"
    /\ Len(errChan) < ErrChanCap
    /\ errChan' = Append(errChan, <<"writer error", wrerr>>)
    /\ reported' = Append(reported, <<"writer error", wrerr>>)
    /\ wrpc' = "done"
    /\ UNCHANGED <<cfgVars, readerVars, workerVars, bufResults, bufNext, ready, flushing,
                   wrerr, out, outPrefix, progress, supVars, chanVars, ctxVars, fileVars>>

\* sendError: case <-p.stream.ctx.Done(), then the deferred wg.Done()
WriterDropError ==
    /\ wrpc = "err"
    /\ ctxDone
    /\ reported' = Append(reported, <<"writer error", wrerr>>)
    /\ wrpc' = "done"
    /\ UNCHANGED <<cfgVars, readerVars, workerVars, bufResults, bufNext, ready, flushing,
                   wrerr, out, outPrefix, progress, supVars, chanVars, errChan, ctxVars, fileVars>>

(***************************************************************************)
(* Supervisor: pipeline.run / waitForCompletion, and Cancel.               *)
(***************************************************************************)
\* the goroutine of waitForCompletion: wg.Wait(); close(done)
CloseDone ==
    /\ spc # "idle"
    /\ ~doneClosed
    /\ StagesDone
    /\ doneClosed' = TRUE
    /\ UNCHANGED <<cfgVars, readerVars, workerVars, writerVars, spc, ret, chanVars,
                   errVars, ctxVars, fileVars>>

\* mutation of SupervisorRecvErr: the error branch does not call cancel()
SupervisorRecvErr_NoCancel ==
    /\ spc = "select"
    /\ errChan # <<>>
    /\ ret' = Head(errChan)
    /\ errChan' = Tail(errChan)
    /\ spc' = "wait"
    /\ UNCHANGED <<cfgVars, readerVars, workerVars, writerVars, doneClosed, chanVars,
                   reported, ctxVars, cancelMidRun, fileVars>>

\* case err := <-p.errChan: p.stream.cancel()
SupervisorRecvErr ==
    /\ spc = "select"
    /\ errChan # <<>>
    /\ ret' = Head(errChan)
    /\ errChan' = Tail(errChan)
    /\ ctxDone' = TRUE
    /\ spc' = "wait"
    /\ UNCHANGED <<cfgVars, readerVars, workerVars, writerVars, doneClosed, chanVars,
                   reported, extCancel, cancelMidRun, fileVars>>

\* case <-done: return nil
SupervisorDone ==
    /\ spc = "select"
    /\ doneClosed
    /\ ret' = NoError
    /\ spc' = "returned"
    /\ UNCHANGED <<cfgVars, readerVars, workerVars, writerVars, doneClosed, chanVars,
                   errVars, ctxVars, fileVars>>

\* case <-p.stream.ctx.Done()
SupervisorCanceled ==
    /\ spc = "select"
    /\ ctxDone
    /\ ret' = ErrCanceled
    /\ spc' = "wait"
    /\ UNCHANGED <<cfgVars, readerVars, workerVars, writerVars, doneClosed, chanVars,
                   errVars, ctxVars, fileVars>>

\* mutation of SupervisorWait: the branch returns without wg.Wait()
SupervisorWait_NoJoin ==
    /\ spc = "wait"
    /\ spc' = "returned"
    /\ UNCHANGED <<cfgVars, readerVars, workerVars, writerVars, doneClosed, ret,
                   chanVars, errVars, ctxVars, fileVars>>

\* wg.Wait() of the error and cancellation branches, then return
SupervisorWait ==
    /\ spc = "wait"
    /\ StagesDone
    /\ spc' = "returned"
    /\ UNCHANGED <<cfgVars, readerVars, workerVars, writerVars, doneClosed, ret,
                   chanVars, errVars, ctxVars, fileVars>>

\* StreamProcessor.Cancel(), invoked by the caller while Process runs
Cancel ==
    /\ canCancel
    /\ spc \in {"select", "wait"}
    /\ ~extCancel
    /\ ctxDone' = TRUE
    /\ extCancel' = TRUE
    /\ cancelMidRun' = ~StagesDone
    /\ UNCHANGED <<cfgVars, readerVars, workerVars, writerVars, supVars, chanVars,
                   errVars, fileVars>>

(***************************************************************************)
(* Inputs of a direct Process call.                                        *)
(***************************************************************************)
DeriveKey(password, salt) ==
    IF password = "" THEN Fail("ErrEmptyPassword")
    ELSE Ok([pw |-> password, salt |-> salt])

TestKey == DeriveKey("pw1", [i \in 1..SaltWords |-> i]).val

\* a chunk record as the encrypting writer frames it
MkRecord(encoded) ==
    [len |-> EncodedLen(encoded), data |-> encoded, complete |-> TRUE]
ZeroRecord == [len |-> 0, data |-> <<>>, complete |-> TRUE]
\* a record whose data shards were altered in storage
Corrupt(rec) == [rec EXCEPT !.data.data.tag.n = @ + 1]
\* a record with one byte of a parity shard altered in storage
CorruptParity(rec) == [rec EXCEPT !.data.parityErr = @ + 1]
\* a record cut short by the end of the file
Truncate(rec) == [rec EXCEPT !.complete = FALSE]

GoodRecord(i) == MkRecord(ProcessorEncrypt(TestKey, 0, <<i>>).val)

\* n records; record `bad` is corrupt, record `zero` is preceded by a
\* zero-length prefix, and with `cut` the last record is truncated
RecordStream(n, bad, zero, cut) ==
    LET rec(i) == IF i = bad THEN Corrupt(GoodRecord(i))
                  ELSE IF i = n /\ cut THEN Truncate(GoodRecord(i))
                  ELSE GoodRecord(i)
        pre == [i \in 1..n |-> rec(i)]
    IN IF zero \in 1..n
       THEN SubSeq(pre, 1, zero - 1) \o <<ZeroRecord>> \o SubSeq(pre, zero, n)
       ELSE pre

\* record `par` of the stream has a parity byte altered
WithParityFault(recs, par) ==
    [i \in 1..Len(recs) |-> IF i = par THEN CorruptParity(recs[i]) ELSE recs[i]]

\* the records of the stream in another order: last to first
Reordered(recs) == [i \in 1..Len(recs) |-> recs[Len(recs) + 1 - i]]

\* the chunk section a run reads under the faults f
FaultyStream(n, f) ==
    LET base == RecordStream(n, f.bad, f.zero, f.cut)
    IN IF f.swap THEN Reordered(base) ELSE WithParityFault(base, f.par)

PlainStream(n) == [i \in 1..n |-> i]

(***************************************************************************)
(* Initial state of a stream run (NewStreamProcessor, runPipeline, run).   *)
(***************************************************************************)
RunInit(m, k, in, sf, wf, cc) ==
    /\ mode = m /\ key = k /\ input = in
    /\ srcFail = sf /\ writeFailAt = wf /\ canCancel = cc
    /\ rpc = "check" /\ rpos = 0 /\ rindex = 0 /\ rtask = NoTask /\ rerr = "nil"
    /\ chunkReads = 0 /\ sentTasks = <<>>
    /\ taskChan = <<>> /\ taskClosed = FALSE
    /\ wpc = [w \in Workers |-> "recv"] /\ wres = [w \in Workers |-> NoResult]
    /\ ppc = "wait" /\ takenLog = <<>>
    /\ resultChan = <<>> /\ resultClosed = FALSE
    /\ bufResults = EmptyMap /\ bufNext = 0 /\ ready = <<>> /\ flushing = FALSE
    /\ wrpc = "select" /\ wrerr = "nil" /\ out = <<>> /\ outPrefix = <<>> /\ progress = <<>>
    /\ errChan = <<>> /\ reported = <<>>
    /\ ctxDone = FALSE /\ extCancel = FALSE /\ cancelMidRun = FALSE
    /\ doneClosed = FALSE /\ spc = "select" /\ ret = NoError

NoHeader == [magic |-> "", salt |-> 0, originalSize |-> 0, nonce |-> 0,
             integrityHash |-> <<>>, authTag |-> <<>>, checksum |-> <<>>]
NoFile == [exists |-> FALSE, hasHeader |-> FALSE, header |-> NoHeader, records |-> <<>>]
\* a file that was just created: it exists and is empty
NewEncFile == [exists |-> TRUE, hasHeader |-> FALSE, header |-> NoHeader, records |-> <<>>]
NoDecFile == [exists |-> FALSE, data |-> <<>>]
NewDecFile == [exists |-> TRUE, data |-> <<>>]
\* what may lie at a destination path before the operation runs: nothing, or
\* an older file with content of its own
OldEncFile == [NewEncFile EXCEPT !.records = <<ZeroRecord>>]
OldDecFile == [NewDecFile EXCEPT !.data = <<0>>]
\* Manager.CreateFile is os.Create: a file already at the path is truncated
\* and the call succeeds
CreateFile(old, empty) == Ok(empty)

NoCall == [op |-> "none", encKey |-> <<>>, key |-> <<>>, chunk |-> <<>>, zeros |-> 0,
           arg |-> <<>>, res |-> Ok(<<>>)]

\* no Worker.runPipeline is running
PipeIdle == [mpc |-> "idle"]

FileIdle ==
    /\ plain = <<>> /\ encPw = "" /\ decPw = ""
    /\ encFile = NoFile /\ decFile = NoDecFile
    /\ hdr = NoHeader /\ opKey = TestKey /\ opErr = NoError /\ verifyCalls = 0
    /\ srcWiped = FALSE /\ srcRemoved = FALSE /\ tampered = ""
    /\ call = NoCall /\ wp = PipeIdle

\* the faults a run of n chunks may meet: none when n > MaxFaultyRecords;
\* otherwise at most one of a record with a corrupt data shard, a record with
\* a corrupt parity shard, reordered records, a truncated last record, a
\* failing source, a failing write, or an external Cancel
Faults(n) ==
    { f \in [bad : 0..n, par : 0..n, swap : BOOLEAN, zero : 0..Min(n, 1),
             cut : BOOLEAN, sf : BOOLEAN, wf : 0..n, cc : BOOLEAN] :
        /\ n > MaxFaultyRecords =>
             f.bad = 0 /\ f.par = 0 /\ ~f.swap /\ ~f.cut /\ ~f.sf /\ f.wf = 0 /\ ~f.cc
        /\ f.bad # 0 => f.par = 0 /\ ~f.swap /\ ~f.cut /\ ~f.sf /\ f.wf = 0 /\ ~f.cc
        /\ f.par # 0 => f.zero = 0 /\ ~f.swap /\ ~f.cut /\ ~f.sf /\ f.wf = 0 /\ ~f.cc
        /\ f.swap => n >= 2 /\ f.zero = 0 /\ ~f.cut /\ ~f.sf /\ f.wf = 0 /\ ~f.cc
        /\ f.cut => n > 0 /\ ~f.sf /\ f.wf = 0 /\ ~f.cc
        /\ f.sf => f.wf = 0 /\ ~f.cc
        /\ f.wf # 0 => ~f.cc }

Init ==
    /\ opc = "process"
    /\ FileIdle
    /\ eofWithData = FALSE
    /\ \E n \in 0..MaxRecords : \E f \in Faults(n) :
          \/ RunInit("Decryption", TestKey, FaultyStream(n, f), f.sf, f.wf, f.cc)
          \/ /\ n <= MaxPlainLen /\ f.bad = 0 /\ f.par = 0 /\ ~f.swap
             /\ f.zero = 0 /\ ~f.cut
             /\ RunInit("Encryption", TestKey, PlainStream(n), f.sf, f.wf, f.cc)

\* a direct Process call on any io.Reader: as Init, and when encrypting the
\* source may be one that returns its last bytes together with io.EOF
InitReader ==
    /\ opc = "process"
    /\ FileIdle
    /\ \E n \in 0..MaxRecords : \E f \in Faults(n) :
          \/ /\ eofWithData = FALSE
             /\ RunInit("Decryption", TestKey, FaultyStream(n, f), f.sf, f.wf, f.cc)
          \/ /\ n <= MaxPlainLen /\ f.bad = 0 /\ f.par = 0 /\ ~f.swap
             /\ f.zero = 0 /\ ~f.cut
             /\ eofWithData \in BOOLEAN
             /\ RunInit("Encryption", TestKey, PlainStream(n), f.sf, f.wf, f.cc)

StreamNext ==
    \/ ReaderCheck \/ ReaderRead \/ ReaderSendTask \/ ReaderSendCanceled
    \/ ReaderSendError \/ ReaderDropError \/ ReaderExit
    \/ \E w \in Workers : WorkerRecv(w)
    \/ \E w \in Workers : WorkerTasksClosed(w)
    \/ \E w \in Workers : WorkerSend(w)
    \/ \E w \in Workers : WorkerCanceled(w)
    \/ RunWorkersExit
    \/ WriterRecv \/ WriterRecvClosed \/ WriterCanceled \/ WriterWrite
    \/ WriterSendError \/ WriterDropError
    \/ CloseDone \/ SupervisorRecvErr \/ SupervisorDone \/ SupervisorWait

\* a direct caller of Process holds the StreamProcessor and may call Cancel;
\* only then can the supervisor find ctx done while it is in its select
EngineNext == StreamNext \/ SupervisorCanceled \/ Cancel

(***************************************************************************)
(* Header: NewHeader, marshal, unmarshalHeader, VerifyKey.  Hashes, MACs   *)
(* and the CRC are symbolic terms over the fields they cover.              *)
(***************************************************************************)
MagicBytes == "HWX2"

\* isWeakSalt: all bytes zero, or the first four bytes repeated throughout
isWeakSalt(salt) == \A i \in 1..SaltWords : salt[i] = salt[1]

computeIntegrityHash(h) ==
    [sha |-> <<MagicBytes, h.salt, h.originalSize, h.nonce>>]

computeAuthTag(h, k) ==
    [hmac |-> <<MagicBytes, h.salt, h.originalSize, h.nonce, h.integrityHash>>,
     k |-> k]

Crc32(h) ==
    [crc |-> <<h.salt, h.originalSize, h.nonce, h.integrityHash, h.authTag>>]

NewHeader(salt, originalSize, k, nonce) ==
    IF isWeakSalt(salt) THEN Fail("weak salt detected")
    ELSE LET h0 == [salt |-> salt, originalSize |-> originalSize, nonce |-> nonce]
             h1 == [salt |-> salt, originalSize |-> originalSize, nonce |-> nonce,
                    integrityHash |-> computeIntegrityHash(h0)]
         IN Ok([salt |-> salt, originalSize |-> originalSize, nonce |-> nonce,
                integrityHash |-> h1.integrityHash,
                authTag |-> computeAuthTag(h1, k)])

marshal(h) ==
    [magic |-> MagicBytes, salt |-> h.salt, originalSize |-> h.originalSize,
     nonce |-> h.nonce, integrityHash |-> h.integrityHash, authTag |-> h.authTag,
     checksum |-> Crc32(h)]

\* mutation of unmarshalHeader: the CRC32 comparison is left out
unmarshalHeader_NoChecksum(data) ==
    IF data.magic # MagicBytes THEN Fail("ErrInvalidMagic")
    ELSE IF data.integrityHash # computeIntegrityHash(data) THEN Fail("ErrTampering")
    ELSE Ok([salt |-> data.salt, originalSize |-> data.originalSize,
             nonce |-> data.nonce, integrityHash |-> data.integrityHash,
             authTag |-> data.authTag])

unmarshalHeader(data) ==
    IF data.magic # MagicBytes THEN Fail("ErrInvalidMagic")
    ELSE IF data.checksum # Crc32(data) THEN Fail("ErrChecksumMismatch")
    ELSE IF data.integrityHash # computeIntegrityHash(data) THEN Fail("ErrTampering")
    ELSE Ok([salt |-> data.salt, originalSize |-> data.originalSize,
             nonce |-> data.nonce, integrityHash |-> data.integrityHash,
             authTag |-> data.authTag])

\* ReadHeader: io.ReadFull of 128 bytes, then unmarshalHeader
ReadHeader(file) ==
    IF ~file.hasHeader THEN Fail("ErrIncompleteRead")
    ELSE unmarshalHeader(file.header)

\* mutation of VerifyKey: the HMAC comparison is left out
VerifyKey_NoAuthTag(h, k) ==
    IF h.integrityHash # computeIntegrityHash(h) THEN Fail("ErrIntegrityFailure")
    ELSE Ok(<<>>)

VerifyKey(h, k) ==
    IF h.authTag # computeAuthTag(h, k) THEN Fail("ErrAuthFailure")
    ELSE IF h.integrityHash # computeIntegrityHash(h) THEN Fail("ErrIntegrityFailure")
    ELSE Ok(<<>>)

\* a stored digest, MAC or checksum with one byte changed: no longer the value
\* computed from the fields it covers
FlipDigest(v) == [flipped |-> v]

\* the serialized header with one byte changed inside the named field
\* (offsets 4..127: salt, original size, nonce, integrity hash, auth tag, CRC)
HeaderFields == {"salt", "originalSize", "nonce", "integrityHash", "authTag", "checksum"}
TamperField(data, field) ==
    CASE field = "salt" -> [data EXCEPT !.salt[1] = @ + 1]
      [] field = "originalSize" -> [data EXCEPT !.originalSize = @ + 1]
      [] field = "nonce" -> [data EXCEPT !.nonce = @ + 1]
      [] field = "integrityHash" -> [data EXCEPT !.integrityHash = FlipDigest(@)]
      [] field = "authTag" -> [data EXCEPT !.authTag = FlipDigest(@)]
      [] field = "checksum" -> [data EXCEPT !.checksum = FlipDigest(@)]

(***************************************************************************)
(* Start of a stream run from a file operation (NewStreamProcessor,        *)
(* Process); the same assignments as RunInit.                              *)
(***************************************************************************)
RunStart(m, k, in, sf, wf, cc) ==
    /\ mode' = m /\ key' = k /\ input' = in
    /\ srcFail' = sf /\ writeFailAt' = wf /\ canCancel' = cc /\ eofWithData' = FALSE
    /\ rpc' = "check" /\ rpos' = 0 /\ rindex' = 0 /\ rtask' = NoTask /\ rerr' = "nil"
    /\ UNCHANGED chunkReads /\ sentTasks' = <<>>
    /\ taskChan' = <<>> /\ taskClosed' = FALSE
    /\ wpc' = [w \in Workers |-> "recv"] /\ wres' = [w \in Workers |-> NoResult]
    /\ ppc' = "wait" /\ takenLog' = <<>>
    /\ resultChan' = <<>> /\ resultClosed' = FALSE
    /\ bufResults' = EmptyMap /\ bufNext' = 0 /\ ready' = <<>> /\ flushing' = FALSE
    /\ wrpc' = "select" /\ wrerr' = "nil" /\ out' = <<>> /\ outPrefix' = <<>> /\ progress' = <<>>
    /\ errChan' = <<>> /\ reported' = <<>>
    /\ ctxDone' = FALSE /\ extCancel' = FALSE /\ cancelMidRun' = FALSE
    /\ doneClosed' = FALSE /\ spc' = "select" /\ ret' = NoError

\* no stream run exists yet
RunIdle ==
    /\ mode = "Encryption" /\ key = TestKey /\ input = <<>>
    /\ srcFail = FALSE /\ writeFailAt = 0 /\ canCancel = FALSE /\ eofWithData = FALSE
    /\ rpc = "idle" /\ rpos = 0 /\ rindex = 0 /\ rtask = NoTask /\ rerr = "nil"
    /\ chunkReads = 0 /\ sentTasks = <<>>
    /\ taskChan = <<>> /\ taskClosed = FALSE
    /\ wpc = [w \in Workers |-> "idle"] /\ wres = [w \in Workers |-> NoResult]
    /\ ppc = "idle" /\ takenLog = <<>>
    /\ resultChan = <<>> /\ resultClosed = FALSE
    /\ bufResults = EmptyMap /\ bufNext = 0 /\ ready = <<>> /\ flushing = FALSE
    /\ wrpc = "idle" /\ wrerr = "nil" /\ out = <<>> /\ outPrefix = <<>> /\ progress = <<>>
    /\ errChan = <<>> /\ reported = <<>>
    /\ ctxDone = FALSE /\ extCancel = FALSE /\ cancelMidRun = FALSE
    /\ doneClosed = FALSE /\ spc = "idle" /\ ret = NoError

\* the StreamProcessor is dropped when the file operation returns
RunStop ==
    /\ mode' = "Encryption" /\ key' = TestKey /\ input' = <<>>
    /\ srcFail' = FALSE /\ writeFailAt' = 0 /\ canCancel' = FALSE /\ eofWithData' = FALSE
    /\ rpc' = "idle" /\ rpos' = 0 /\ rindex' = 0 /\ rtask' = NoTask /\ rerr' = "nil"
    /\ UNCHANGED chunkReads /\ sentTasks' = <<>>
    /\ taskChan' = <<>> /\ taskClosed' = FALSE
    /\ wpc' = [w \in Workers |-> "idle"] /\ wres' = [w \in Workers |-> NoResult]
    /\ ppc' = "idle" /\ takenLog' = <<>>
    /\ resultChan' = <<>> /\ resultClosed' = FALSE
    /\ bufResults' = EmptyMap /\ bufNext' = 0 /\ ready' = <<>> /\ flushing' = FALSE
    /\ wrpc' = "idle" /\ wrerr' = "nil" /\ out' = <<>> /\ outPrefix' = <<>> /\ progress' = <<>>
    /\ errChan' = <<>> /\ reported' = <<>>
    /\ ctxDone' = FALSE /\ extCancel' = FALSE /\ cancelMidRun' = FALSE
    /\ doneClosed' = FALSE /\ spc' = "idle" /\ ret' = NoError

\* the faults a stream run started by a file operation may meet: a failing
\* source, or a failing Write among the first two.  The StreamProcessor is local to the
\* operation, so nothing can call its Cancel.
FileFaults ==
    { f \in [sf : BOOLEAN, wf : 0..2, cc : {FALSE}] : f.sf => f.wf = 0 }

(***************************************************************************)
(* EncryptFile.                                                            *)
(***************************************************************************)
\* OpenFile, CreateFile, GenerateSalt, DeriveKey, NewHeader, header.Write,
\* NewStreamProcessor and the call of Process
EncryptFileStart ==
    /\ opc = "enc_call"
    /\ \E salt \in SaltPool, hnonce \in Nonces, f \in FileFaults :
         LET dst == CreateFile(encFile, NewEncFile)
             k == DeriveKey(encPw, salt)
             h == NewHeader(salt, Len(plain), k.val, hnonce)
         IN IF ~dst.ok
            THEN /\ opErr' = <<"failed to create destination file", dst.err>>
                 /\ opc' = "enc_failed"
                 /\ UNCHANGED <<engineVars, opKey, encFile>>
            ELSE IF ~k.ok
            THEN /\ opErr' = <<"failed to derive key", k.err>>
                 /\ opc' = "enc_failed"
                 /\ encFile' = dst.val
                 /\ UNCHANGED <<engineVars, opKey>>
            ELSE IF ~h.ok
            THEN /\ opErr' = <<"failed to create header", h.err>>
                 /\ opc' = "enc_failed"
                 /\ encFile' = dst.val
                 /\ UNCHANGED <<engineVars, opKey>>
            ELSE /\ encFile' = [dst.val EXCEPT !.hasHeader = TRUE,
                                                !.header = marshal(h.val)]
                 /\ opKey' = k.val
                 /\ opc' = "enc_stream"
                 /\ RunStart("Encryption", k.val, plain, f.sf, f.wf, f.cc)
                 /\ UNCHANGED opErr
    /\ UNCHANGED <<plain, encPw, decPw, decFile, hdr, verifyCalls, srcWiped,
                   srcRemoved, tampered, call, wp>>

\* Process returns to EncryptFile, which returns its error to the caller
EncryptFileReturn ==
    /\ opc = "enc_stream"
    /\ spc = "returned"
    /\ encFile' = [encFile EXCEPT !.records = [i \in 1..Len(out) |-> out[i].Data] \o outPrefix]
    /\ opErr' = ret
    /\ opc' = IF ret = NoError THEN "enc_done" ELSE "enc_failed"
    /\ RunStop
    /\ UNCHANGED <<plain, encPw, decPw, decFile, hdr, opKey, verifyCalls, srcWiped,
                   srcRemoved, tampered, call, wp>>

(***************************************************************************)
(* Between the two operations the stored file may be altered: one byte of  *)
(* the header at an offset in 4..127 is changed.                           *)
(***************************************************************************)
TamperHeader ==
    /\ opc = "enc_done"
    /\ tampered = ""
    /\ \E field \in HeaderFields :
         /\ tampered' = field
         /\ encFile' = [encFile EXCEPT !.header = TamperField(@, field)]
    /\ UNCHANGED <<engineVars, opc, plain, encPw, decPw, decFile, hdr, opKey, opErr,
                   verifyCalls, srcWiped, srcRemoved, call, wp>>

\* storage loses the end of the encrypted file: the last chunk record, with
\* its length prefix, is removed; the header stays as it was written
DropTrailingRecord ==
    /\ opc = "enc_done"
    /\ encFile.records # <<>>
    /\ encFile' = [encFile EXCEPT !.records = SubSeq(@, 1, Len(@) - 1)]
    /\ UNCHANGED <<engineVars, opc, plain, encPw, decPw, decFile, hdr, opKey, opErr,
                   verifyCalls, srcWiped, srcRemoved, tampered, call, wp>>

(***************************************************************************)
(* DecryptFile, called on the file EncryptFile produced.                   *)
(***************************************************************************)
\* OpenFile and crypto.ReadHeader
DecryptReadHeader ==
    /\ opc = "enc_done"
    /\ \E pw \in Passwords : decPw' = pw
    /\ \E dst \in {NoDecFile, OldDecFile} : decFile' = dst
    /\ LET h == ReadHeader(encFile)
       IN IF h.ok
          THEN hdr' = h.val /\ opc' = "dec_derive" /\ UNCHANGED opErr
          ELSE /\ opErr' = <<"failed to read header", h.err>>
               /\ opc' = "dec_failed"
               /\ UNCHANGED hdr
    /\ UNCHANGED <<engineVars, plain, encPw, encFile, opKey, verifyCalls, srcWiped,
                   srcRemoved, tampered, call, wp>>

\* mutation of DecryptDeriveKey: the destination is created before the key
\* is derived, as EncryptFile does
DecryptDeriveKey_CreatesFirst ==
    /\ opc = "dec_derive"
    /\ decFile' = CreateFile(decFile, NewDecFile).val
    /\ LET k == DeriveKey(decPw, hdr.salt)
       IN IF k.ok
          THEN opKey' = k.val /\ opc' = "dec_verify" /\ UNCHANGED opErr
          ELSE /\ opErr' = <<"failed to derive key", k.err>>
               /\ opc' = "dec_failed"
               /\ UNCHANGED opKey
    /\ UNCHANGED <<engineVars, plain, encPw, decPw, encFile, hdr, verifyCalls,
                   srcWiped, srcRemoved, tampered, call, wp>>

\* crypto.DeriveKey([]byte(password), header.Salt())
DecryptDeriveKey ==
    /\ opc = "dec_derive"
    /\ LET k == DeriveKey(decPw, hdr.salt)
       IN IF k.ok
          THEN opKey' = k.val /\ opc' = "dec_verify" /\ UNCHANGED opErr
          ELSE /\ opErr' = <<"failed to derive key", k.err>>
               /\ opc' = "dec_failed"
               /\ UNCHANGED opKey
    /\ UNCHANGED <<engineVars, plain, encPw, decPw, encFile, decFile, hdr, verifyCalls,
                   srcWiped,
                   srcRemoved, tampered, call, wp>>

\* header.VerifyKey(key)
DecryptVerifyKey ==
    /\ opc = "dec_verify"
    /\ verifyCalls' = verifyCalls + 1
    /\ LET v == VerifyKey(hdr, opKey)
       IN IF v.ok
          THEN opc' = "dec_create" /\ UNCHANGED opErr
          ELSE /\ opErr' = <<"header verification failed", v.err>>
               /\ opc' = "dec_failed"
    /\ UNCHANGED <<engineVars, plain, encPw, decPw, encFile, decFile, hdr, opKey,
                   srcWiped,
                   srcRemoved, tampered, call, wp>>

\* the originalSize check, CreateFile, NewStreamProcessor and the call of Process
DecryptFileStart ==
    /\ opc = "dec_create"
    /\ LET dst == CreateFile(decFile, NewDecFile)
       IN IF ~dst.ok
          THEN /\ opErr' = <<"failed to create destination file", dst.err>>
               /\ opc' = "dec_failed"
               /\ UNCHANGED <<engineVars, decFile>>
          ELSE /\ decFile' = dst.val
               /\ opc' = "dec_stream"
               /\ \E f \in FileFaults :
                    RunStart("Decryption", opKey, encFile.records, f.sf, f.wf, f.cc)
               /\ UNCHANGED opErr
    /\ UNCHANGED <<plain, encPw, decPw, encFile, hdr, opKey, verifyCalls, srcWiped,
                   srcRemoved, tampered, call, wp>>

RECURSIVE Concat(_)
Concat(chunks) == IF chunks = <<>> THEN <<>> ELSE Head(chunks) \o Concat(Tail(chunks))

\* Process returns to DecryptFile, which returns its error to the caller
DecryptFileReturn ==
    /\ opc = "dec_stream"
    /\ spc = "returned"
    /\ decFile' = [decFile EXCEPT !.data = Concat([i \in 1..Len(out) |-> out[i].Data])]
    /\ opErr' = ret
    /\ opc' = IF ret = NoError THEN "dec_done" ELSE "dec_failed"
    /\ RunStop
    /\ UNCHANGED <<plain, encPw, decPw, encFile, hdr, opKey, verifyCalls, srcWiped,
                   srcRemoved, tampered, call, wp>>

(***************************************************************************)
(* CLIProcessor.Encrypt and CLIProcessor.Decrypt with deleteSource set:    *)
(* what follows the return of EncryptFile / DecryptFile.  On an error the  *)
(* CLI returns it wrapped and touches no file.                             *)
(***************************************************************************)
OverwritePasses == 3
\* Manager.Remove(path, option) on a file that holds bytes (info.Size() > 0)
\* or is empty: every way the call can end, as what it did to the file.
\* DeleteStandard is os.Remove.
\* DeleteSecure is secureDelete: open for writing, Stat, OverwritePasses
\* passes of randomOverwrite from offset 0, then os.Remove; each step may
\* fail and ends the call.  A pass that fails may have written bytes
\* before it failed; a file without bytes is never written to.
ManagerRemove(secure, hasBytes) ==
    IF ~secure
    THEN { [removed |-> r, wiped |-> FALSE] : r \in BOOLEAN }
    ELSE    \* os.OpenFile or file.Stat fails
            { [removed |-> FALSE, wiped |-> FALSE] }
            \* pass p fails, before or after it wrote bytes of its own
            \cup { [removed |-> FALSE, wiped |-> hasBytes /\ (p > 1 \/ w)] :
                     p \in 1..OverwritePasses, w \in BOOLEAN }
            \* every pass is done: os.Remove fails, or succeeds
            \cup { [removed |-> r, wiped |-> hasBytes] : r \in BOOLEAN }

\* Manager.Remove on the source; a failed removal only prints a warning
CLIEncryptDeleteSource ==
    /\ opc = "enc_done"
    /\ opErr = NoError
    /\ \E secureDelete \in BOOLEAN :
         \E r \in ManagerRemove(secureDelete, Len(plain) > 0) :
            srcRemoved' = r.removed /\ srcWiped' = r.wiped
    /\ opc' = "cli_enc_done"
    /\ UNCHANGED <<engineVars, plain, encPw, decPw, encFile, decFile, hdr, opKey, opErr,
                   verifyCalls, tampered, call, wp>>

\* the source of Decrypt is the encrypted file
CLIDecryptDeleteSource ==
    /\ opc = "dec_done"
    /\ opErr = NoError
    /\ \E secureDelete \in BOOLEAN :
         \E r \in ManagerRemove(secureDelete, encFile.hasHeader) :
            /\ srcRemoved' = r.removed /\ srcWiped' = r.wiped
            /\ encFile' = [encFile EXCEPT !.exists = ~r.removed]
    /\ opc' = "cli_dec_done"
    /\ UNCHANGED <<engineVars, plain, encPw, decPw, decFile, hdr, opKey, opErr,
                   verifyCalls, tampered, call, wp>>

\* the source files: 1, 2, ..., n for each length n
Plaintexts == {PlainStream(n) : n \in 0..MaxPlainLen}

InitFile ==
    /\ opc = "enc_call"
    /\ plain \in Plaintexts
    /\ encPw \in Passwords
    /\ decPw = ""
    /\ encFile \in {NoFile, OldEncFile} /\ decFile = NoDecFile
    /\ hdr = NoHeader /\ opKey = TestKey /\ opErr = NoError /\ verifyCalls = 0
    /\ srcWiped = FALSE /\ srcRemoved = FALSE /\ tampered = ""
    /\ call = NoCall /\ wp = PipeIdle
    /\ RunIdle

FileNext ==
    \/ EncryptFileStart \/ EncryptFileReturn
    \/ DecryptReadHeader \/ DecryptDeriveKey \/ DecryptVerifyKey
    \/ DecryptFileStart \/ DecryptFileReturn
    \/ CLIEncryptDeleteSource \/ CLIDecryptDeleteSource

(***************************************************************************)
(* Single calls of the chunk-level functions: Processor.Encrypt, then      *)
(* Processor.Decrypt by a processor of its own on what Encrypt returned,   *)
(* and Compressor.Decompress on a gzip member.                             *)
(***************************************************************************)
ChunkBytes == {1, 2}
BytesUpTo(n) == UNION {[1..m -> ChunkBytes] : m \in 0..n}
\* the chunks a reader hands to a worker (readForEncryption: make([]byte, n)
\* with n bytes read, at most ChunkSize, never the nil slice), and the empty
\* chunk
Chunks == BytesUpTo(ChunkSize)
ChunkKeys == {DeriveKey(pw, [i \in 1..SaltWords |-> i]).val : pw \in Passwords \ {""}}
\* the splitter zero-fills the last data shard with at most k - 1 bytes
TrailingZeros == 0..(DataShards - 1)
\* the encoding of the sealed buffer followed by z zero bytes
ZeroExtended(encoded, z) == Encode([encoded.data EXCEPT !.extra = z]).val

InitChunk ==
    /\ opc = "chunk"
    /\ FileIdle
    /\ RunIdle

\* NewProcessor(k), Processor.Encrypt(c) on a chunk
CallEncrypt ==
    /\ opc = "chunk" /\ call.op = "none"
    /\ \E k \in ChunkKeys, nonce \in Nonces, c \in Chunks :
         call' = [op |-> "Encrypt", encKey |-> k, key |-> k, chunk |-> c, zeros |-> 0,
                  arg |-> c, res |-> ProcessorEncrypt(k, nonce, c)]
    /\ UNCHANGED <<engineVars, opVars, wp>>

\* NewProcessor(k2), Processor.Decrypt on the buffer Encrypt returned, or on
\* the encoding of the same sealed bytes followed by z zero bytes
CallDecrypt ==
    /\ opc = "chunk" /\ call.op = "Encrypt" /\ call.res.ok
    /\ \E k2 \in ChunkKeys, z \in TrailingZeros :
         LET buf == ZeroExtended(call.res.val, z)
         IN call' = [op |-> "Decrypt", encKey |-> call.encKey, key |-> k2,
                     chunk |-> call.chunk, zeros |-> z,
                     arg |-> buf, res |-> ProcessorDecrypt(k2, buf)]
    /\ UNCHANGED <<engineVars, opVars, wp>>

\* Compressor.Decompress on the gzip member of d
CallDecompress ==
    /\ opc = "chunk" /\ call.op = "none"
    /\ \E d \in BytesUpTo(MaxDecompressionSize + 1) :
         call' = [op |-> "Decompress", encKey |-> <<>>, key |-> <<>>, chunk |-> d,
                  zeros |-> 0, arg |-> Compress(d).val, res |-> Decompress(Compress(d).val)]
    /\ UNCHANGED <<engineVars, opVars, wp>>

\* Encoder.Encode on a buffer of n bytes, n around the largest length it takes
CallEncode ==
    /\ opc = "chunk" /\ call.op = "none"
    /\ \E n \in {MaxDataLen - 1, MaxDataLen, MaxDataLen + 1} :
         LET sealed == AESEncrypt(TestKey, 0, Pad(<<>>).val).val
             buf == [sealed EXCEPT !.extra = n - SealedLen(sealed)]
         IN call' = [op |-> "Encode", encKey |-> <<>>, key |-> <<>>, chunk |-> <<>>,
                     zeros |-> 0, arg |-> buf, res |-> Encode(buf)]
    /\ UNCHANGED <<engineVars, opVars, wp>>

NextChunk == CallEncrypt \/ CallDecrypt \/ CallDecompress \/ CallEncode

(***************************************************************************)
(* Buffer.Add called on its own, with results in any order of arrival.     *)
(* bufResults and bufNext are the Buffer; `ready` collects what the calls  *)
(* returned, in return order.                                              *)
(***************************************************************************)
MaxBufferIndex == 6

InitBuffer == opc = "buffer" /\ FileIdle /\ RunIdle

\* the indices passed to Add so far: those still held and those returned
AddedIndices == (DOMAIN bufResults) \cup {ready[i].Index : i \in 1..Len(ready)}

\* one call of Add with an index no earlier call had
BufferAddCall ==
    /\ opc = "buffer"
    /\ \E idx \in (0..MaxBufferIndex) \ AddedIndices :
         LET result == [Index |-> idx, Data |-> <<idx>>, Size |-> 1, Err |-> "nil"]
             b == BufferAdd(bufResults, bufNext, result)
         IN /\ bufResults' = b.results
            /\ bufNext' = b.next
            /\ ready' = ready \o b.ready
    /\ UNCHANGED <<cfgVars, readerVars, workerVars, flushing, wrpc, wrerr, out, outPrefix, progress,
                   supVars, chanVars, errVars, ctxVars, fileVars>>

NextBuffer == BufferAddCall

(***************************************************************************)
(* Worker.runPipeline of package worker: the pipeline without a context.   *)
(* tasks and results are channels of capacity w.concurrency, errChan has   *)
(* capacity 1.  The caller's goroutine reads the input and sends the tasks *)
(* (setTasks), then waits (waitForComplete).  A chunk is its index; the    *)
(* processing of chunk `bad` fails (0: of none).                           *)
(***************************************************************************)
\* chunks enough to fill both channels and occupy every worker after the
\* writer took one result, with one more for the reader to be sending
MaxPipeChunks == 3 * Concurrency + 2

PipeStartState(n, bad) ==
    [mpc |-> "read", n |-> n, bad |-> bad, index |-> 0,
     tasks |-> <<>>, tasksClosed |-> FALSE,
     results |-> <<>>, resultsClosed |-> FALSE,
     errChan |-> <<>>,
     wk |-> [w \in Workers |-> [pc |-> "recv", res |-> NoTask]],
     wrpc |-> "recv", pending |-> {}, nextIndex |-> 0, written |-> <<>>,
     ret |-> "nil"]

InitPipe == opc = "pipeline" /\ FileIdle /\ RunIdle

PipeFrame == UNCHANGED <<engineVars, opVars, call>>

\* runPipeline: the channels are made, the workers and the writer started
PipeStart ==
    /\ opc = "pipeline" /\ wp.mpc = "idle"
    /\ \E n \in 0..MaxPipeChunks : \E bad \in 0..n : wp' = PipeStartState(n, bad)
    /\ PipeFrame

\* readForEncryption / readForDecryption: one read; at io.EOF setTasks
\* returns nil and waitForComplete starts
PipeRead ==
    /\ opc = "pipeline" /\ wp.mpc = "read"
    /\ wp' = [wp EXCEPT !.mpc = IF wp.index = wp.n THEN "close" ELSE "send"]
    /\ PipeFrame

\* tasks <- Task{...}; index++
PipeSendTask ==
    /\ opc = "pipeline" /\ wp.mpc = "send"
    /\ Len(wp.tasks) < Concurrency
    /\ wp' = [wp EXCEPT !.tasks = Append(@, wp.index), !.index = @ + 1, !.mpc = "read"]
    /\ PipeFrame

\* waitForComplete: close(tasks)
PipeCloseTasks ==
    /\ opc = "pipeline" /\ wp.mpc = "close"
    /\ wp' = [wp EXCEPT !.tasksClosed = TRUE, !.mpc = "workerWait"]
    /\ PipeFrame

\* processTasks: for t := range tasks; ProcessChunk(t.Data)
PipeWorkerRecv(w) ==
    /\ opc = "pipeline" /\ wp.mpc # "idle"
    /\ wp.wk[w].pc = "recv" /\ wp.tasks # <<>>
    /\ LET t == Head(wp.tasks)
       IN wp' = [wp EXCEPT !.tasks = Tail(@),
                           !.wk[w] = [pc |-> "send",
                                      res |-> [Index |-> t, Err |-> (t + 1 = wp.bad)]]]
    /\ PipeFrame

\* processTasks: results <- TaskResult{...}
PipeWorkerSend(w) ==
    /\ opc = "pipeline" /\ wp.mpc # "idle"
    /\ wp.wk[w].pc = "send" /\ Len(wp.results) < Concurrency
    /\ wp' = [wp EXCEPT !.results = Append(@, wp.wk[w].res),
                        !.wk[w] = [pc |-> "recv", res |-> NoTask]]
    /\ PipeFrame

\* processTasks: the range loop ends on the closed tasks channel; wg.Done()
PipeWorkerExit(w) ==
    /\ opc = "pipeline" /\ wp.mpc # "idle"
    /\ wp.wk[w].pc = "recv" /\ wp.tasks = <<>> /\ wp.tasksClosed
    /\ wp' = [wp EXCEPT !.wk[w].pc = "done"]
    /\ PipeFrame

\* waitForComplete: worker.Wait() returns; close(results)
PipeWorkersJoined ==
    /\ opc = "pipeline" /\ wp.mpc = "workerWait"
    /\ \A w \in Workers : wp.wk[w].pc = "done"
    /\ wp' = [wp EXCEPT !.resultsClosed = TRUE, !.mpc = "writerWait"]
    /\ PipeFrame

RECURSIVE PipeEmit(_, _, _)
\* the inner loop of writeResults: write pending[nextIndex], delete it, nextIndex++
PipeEmit(pending, nextIndex, written) ==
    IF nextIndex \in pending
    THEN PipeEmit(pending \ {nextIndex}, nextIndex + 1, Append(written, nextIndex))
    ELSE [pending |-> pending, nextIndex |-> nextIndex, written |-> written]

\* writeResults: for res := range results; a result with Err is reported on
\* errChan (which is empty: the writer is its only sender) and the writer
\* returns
PipeWriterRecv ==
    /\ opc = "pipeline" /\ wp.mpc # "idle"
    /\ wp.wrpc = "recv" /\ wp.results # <<>>
    /\ LET res == Head(wp.results)
           e == PipeEmit(wp.pending \cup {res.Index}, wp.nextIndex, wp.written)
       IN IF res.Err
          THEN wp' = [wp EXCEPT !.results = Tail(@),
                               !.errChan = Append(@, <<"processing chunk", res.Index>>),
                               !.wrpc = "done"]
          ELSE wp' = [wp EXCEPT !.results = Tail(@), !.pending = e.pending,
                               !.nextIndex = e.nextIndex, !.written = e.written]
    /\ PipeFrame

\* writeResults: the range loop ends on the closed results channel
PipeWriterExit ==
    /\ opc = "pipeline" /\ wp.mpc # "idle"
    /\ wp.wrpc = "recv" /\ wp.results = <<>> /\ wp.resultsClosed
    /\ wp' = [wp EXCEPT !.wrpc = "done"]
    /\ PipeFrame

\* waitForComplete: writer.Wait() returns; the select on errChan
PipeReturn ==
    /\ opc = "pipeline" /\ wp.mpc = "writerWait"
    /\ wp.wrpc = "done"
    /\ wp' = [wp EXCEPT !.mpc = "returned",
                        !.ret = IF wp.errChan # <<>> THEN Head(wp.errChan) ELSE "nil",
                        !.errChan = IF wp.errChan # <<>> THEN Tail(wp.errChan) ELSE <<>>]
    /\ PipeFrame

\* a step of one of the goroutines of a running pipeline
PipeStep ==
    \/ PipeRead \/ PipeSendTask \/ PipeCloseTasks
    \/ \E w \in Workers : PipeWorkerRecv(w)
    \/ \E w \in Workers : PipeWorkerSend(w)
    \/ \E w \in Workers : PipeWorkerExit(w)
    \/ PipeWorkersJoined
    \/ PipeWriterRecv \/ PipeWriterExit
    \/ PipeReturn

NextPipe == PipeStart \/ PipeStep

Next == EngineNext

NextFile == FileNext \/ StreamNext

\* the file operations on storage that may alter the header in between
NextTamper == NextFile \/ TamperHeader

Spec == Init /\ [][Next]_vars

SpecFile == InitFile /\ [][NextFile]_vars

SpecTamper == InitFile /\ [][NextTamper]_vars

\* the file operations on storage that may lose the end of the file in between
NextTruncate == NextFile \/ DropTrailingRecord

SpecTruncate == InitFile /\ [][NextTruncate]_vars

SpecChunk == InitChunk /\ [][NextChunk]_vars

SpecReader == InitReader /\ [][Next]_vars

SpecBuffer == InitBuffer /\ [][NextBuffer]_vars

SpecPipe == InitPipe /\ [][NextPipe]_vars

\* a step of one of the goroutines of Process: every action of Next but the
\* caller's Cancel. The Go scheduler runs a goroutine that is able to run.
ProcessStep ==
    \/ ReaderCheck \/ ReaderRead \/ ReaderSendTask \/ ReaderSendCanceled
    \/ ReaderSendError \/ ReaderDropError \/ ReaderExit
    \/ \E w \in Workers : WorkerTasksClosed(w)
    \/ \E w \in Workers : WorkerSend(w)
    \/ \E w \in Workers : WorkerCanceled(w)
    \/ RunWorkersExit
    \/ WriterRecv \/ WriterRecvClosed \/ WriterCanceled \/ WriterWrite
    \/ WriterSendError \/ WriterDropError
    \/ CloseDone \/ SupervisorRecvErr \/ SupervisorDone \/ SupervisorWait
    \/ SupervisorCanceled
    \/ \E w \in Workers : WorkerRecv(w)

\* enough chunks to fill both channels and occupy every worker after the
\* writer took one result, with one more chunk for the reader to be sending
MaxLiveRecords == 2 * QueueSize + Concurrency + 2

\* a cancelled run has enough chunks to fill the task channel and occupy
\* every worker while the reader is sending one more
MaxCancelRecords == QueueSize + Concurrency + 1

\* the faults of a run that end a stage early: the first record is corrupt,
\* the source fails, the first write fails, or the caller may cancel
LiveFaults(n) ==
    { f \in [bad : 0..Min(n, 1), par : {0}, swap : {FALSE}, zero : {0},
             cut : {FALSE}, sf : BOOLEAN, wf : 0..Min(n, 1), cc : BOOLEAN] :
        /\ f.cc => n <= MaxCancelRecords
        /\ f.bad # 0 => ~f.sf /\ f.wf = 0 /\ ~f.cc
        /\ f.sf => f.wf = 0 /\ ~f.cc
        /\ f.wf # 0 => ~f.cc }

InitLive ==
    /\ opc = "process"
    /\ FileIdle
    /\ eofWithData = FALSE
    /\ \E n \in 0..MaxLiveRecords : \E f \in LiveFaults(n) :
          \/ RunInit("Decryption", TestKey, FaultyStream(n, f), f.sf, f.wf, f.cc)
          \/ /\ n <= MaxPlainLen /\ f.bad = 0
             /\ RunInit("Encryption", TestKey, PlainStream(n), f.sf, f.wf, f.cc)

\* a direct Process call whose goroutines keep being scheduled
SpecLive == InitLive /\ [][Next]_vars /\ WF_vars(ProcessStep)

TypeOK ==
    /\ Len(taskChan) <= QueueSize
    /\ Len(resultChan) <= QueueSize
    /\ Len(errChan) <= ErrChanCap

(***************************************************************************)
(* Properties of the stream engine.                                        *)
(***************************************************************************)
Returned == spc = "returned"
\* a run in which no stage handed an error to sendError and ctx was never cancelled
CleanRun == reported = <<>> /\ ~ctxDone

\* the tasks a serial reader produces from the input, in index order
RECURSIVE SplitChunks(_)
SplitChunks(bytes) ==
    IF bytes = <<>> THEN <<>>
    ELSE LET n == Min(ChunkSize, Len(bytes))
         IN <<SubSeq(bytes, 1, n)>> \o SplitChunks(SubSeq(bytes, n + 1, Len(bytes)))

RECURSIVE RecordPayloads(_)
RecordPayloads(recs) ==
    IF recs = <<>> THEN <<>>
    ELSE IF Head(recs).len = 0 THEN RecordPayloads(Tail(recs))
    ELSE <<Head(recs).data>> \o RecordPayloads(Tail(recs))

SerialTasks ==
    LET datas == IF mode = "Encryption" THEN SplitChunks(input) ELSE RecordPayloads(input)
    IN [i \in 1..Len(datas) |-> [Index |-> i - 1, Data |-> datas[i]]]

\* the nonce a written encryption record carries (decryption draws none)
NonceOf(w) == IF mode = "Encryption" THEN w.Data.data.data.nonce ELSE 0

\* out[i] is what serial execution writes for task i, under the nonce drawn for it
SerialAt(i) == out[i] = Written(processTask(SerialTasks[i], NonceOf(out[i])))

\* C1: with no external Cancel, once a stage has reported an error Process
\* returns the first reported error, never nil.
C1_FirstErrorReturned ==
    (Returned /\ ~extCancel /\ reported # <<>>) => ret = reported[1]

\* C2: the writer never writes the chunk with index i before the chunk with
\* index i-1 has been written, in any run.
C2_WritesInIndexOrder ==
    \A k \in 1..Len(out) :
        out[k].Index = 0 \/ \E j \in 1..(k - 1) : out[j].Index = out[k].Index - 1

\* C3: in a run with no stage error and no cancellation the output is at every
\* moment a prefix of the serial-execution output, and is all of it at return.
C3_OutputEqualsSerial ==
    CleanRun =>
        /\ Len(out) <= Len(SerialTasks)
        /\ \A i \in 1..Len(out) : SerialAt(i)
        /\ Returned => (Len(out) = Len(SerialTasks) /\ outPrefix = <<>>)

\* C3 witness: a clean run of MaxFaultyRecords + 1 or more chunks returned with
\* every chunk written.
C3_Witness ==
    /\ Returned /\ CleanRun /\ ret = NoError
    /\ Len(out) > MaxFaultyRecords

\* C4: when Cancel() is invoked during a run in which no stage reported an
\* error of its own, Process returns ErrCanceled.
C4_CancelReturnsErrCanceled ==
    (Returned /\ cancelMidRun) => ret = ErrCanceled

\* C5: once the shared cancellation handle is set, the writer writes no
\* further chunk, and no length prefix of one.
C5_NoWriteAfterCancel == [][ctxDone => (out' = out /\ outPrefix' = outPrefix)]_vars

\* C6: the reorder buffer never holds more than queueSize + concurrency results.
C6_BufferBounded == Cardinality(DOMAIN bufResults) <= QueueSize + Concurrency

\* C7: Process returns only after the reader, every worker of the pool, the
\* pool itself and the writer have terminated.
C7_ReturnAfterAllStagesEnd ==
    Returned =>
        /\ rpc = "done" /\ ppc = "done" /\ wrpc = "done"
        /\ \A w \in Workers : wpc[w] = "exit"

\* C7 witness: Process returned on the error path of waitForCompletion after
\* the writer had written something.
C7_Witness == Returned /\ ret \notin {NoError, ErrCanceled} /\ out # <<>>

Count(seq, P(_)) == Cardinality({k \in 1..Len(seq) : P(seq[k])})

\* C8: in a run that completes without error or cancellation every task the
\* reader produced is received by exactly one worker and written exactly once.
C8_ExactlyOnce ==
    (Returned /\ CleanRun) =>
        /\ rindex = Len(SerialTasks)
        /\ \A i \in 0..(rindex - 1) :
             /\ Count(takenLog, LAMBDA x : x = i) = 1
             /\ Count(out, LAMBDA x : x.Index = i) = 1
        /\ Len(takenLog) = rindex /\ Len(out) = rindex

\* C8 witness: a clean run with a zero-length prefix skipped and three or more
\* tasks returned.
C8_Witness ==
    /\ Returned /\ CleanRun /\ mode = "Decryption"
    /\ rindex >= 3 /\ Len(input) > rindex

(***************************************************************************)
(* Properties of DecryptFile and of the EncryptFile / DecryptFile pair.    *)
(***************************************************************************)
DecEnded == opc \in {"dec_done", "dec_failed"}
ErrWrongPassword == <<"header verification failed", "ErrAuthFailure">>

\* C9: in DecryptFile, VerifyKey runs at most once, only on a header that was
\* read, exactly once before the destination is created and before any chunk
\* record is read; with a wrong password DecryptFile never starts the stream
\* and ends with the AuthFailure error with no chunk record read.
C9_VerifyKeyOnceBeforeChunks ==
    /\ verifyCalls <= 1
    /\ verifyCalls = 1 => hdr # NoHeader
    /\ chunkReads > 0 => verifyCalls = 1
    /\ opc \in {"dec_create", "dec_stream", "dec_done"} =>
          verifyCalls = 1 /\ decPw = encPw
    /\ (DecEnded /\ decPw \notin {"", encPw}) =>
          /\ opc = "dec_failed"
          /\ opErr = ErrWrongPassword
          /\ verifyCalls = 1
          /\ chunkReads = 0

\* C9 witness: DecryptFile ended on a wrong password for a file of two or
\* more chunk records.
C9_Witness ==
    /\ opc = "dec_failed" /\ encPw # "" /\ decPw \notin {"", encPw}
    /\ Len(encFile.records) >= 2
    /\ verifyCalls = 1 /\ chunkReads = 0

\* C10: for every plaintext P and non-empty password W, DecryptFile with W on
\* the file EncryptFile wrote for P with W succeeds and writes exactly P.
\* DecryptFile runs only on a file for which EncryptFile returned nil.  The
\* formula is the half of the statement that no failing read or write of the
\* decryption can excuse: whenever DecryptFile returns nil, the file it wrote
\* is exactly P.
C10_RoundTrip ==
    (opc = "dec_done" /\ decPw = encPw) =>
        /\ opErr = NoError
        /\ decFile.exists
        /\ decFile.data = plain

(***************************************************************************)
(* Properties of the destination file of EncryptFile and DecryptFile.      *)
(***************************************************************************)
\* the errors DecryptFile returns before it creates its destination
DecPreludeErrors ==
    {"failed to read header", "failed to derive key", "header verification failed",
     "failed to create destination file"}
\* EncryptFile creates its destination first, so each of its errors comes after
EncFailedAfterCreate == opc = "enc_failed"
DecFailedAfterCreate == opc = "dec_failed" /\ opErr[1] \notin DecPreludeErrors

\* C11: whenever EncryptFile or DecryptFile has returned an error after it
\* created the destination file, the destination file no longer exists.
C11_PartialOutputDeleted ==
    /\ EncFailedAfterCreate => ~encFile.exists
    /\ DecFailedAfterCreate => ~decFile.exists

\* C12: EncryptFile and DecryptFile fail when the destination path already
\* exists at the moment they create the destination.
C12_FailIfDestinationExists ==
    [][ /\ (opc = "enc_call" /\ encFile.exists) => opc' = "enc_failed"
        /\ (opc = "dec_create" /\ decFile.exists) => opc' = "dec_failed" ]_vars

(***************************************************************************)
(* Properties of the CLI's source deletion.                                *)
(***************************************************************************)
\* what decrypting every non-empty record of a file, in order, yields
DecryptAll(k, recs) ==
    LET ps == RecordPayloads(recs)
    IN Concat([i \in 1..Len(ps) |-> ProcessorDecrypt(k, ps[i]).val])

\* C13: with delete-source enabled the CLI removes the source file only after
\* a successful operation: every chunk of the source was processed without
\* error and written to the destination.
C13_SourceRemovedOnlyAfterSuccess ==
    srcRemoved =>
        /\ opErr = NoError
        /\ opc = "cli_enc_done" =>
              Len(encFile.records) = Len(SplitChunks(plain))
        /\ opc = "cli_dec_done" =>
              decFile.data = DecryptAll(opKey, encFile.records)

(***************************************************************************)
(* Properties of decryption of an altered chunk section.  The valid file   *)
(* holds the records of the chunks <<1>>, <<2>>, ... under TestKey.        *)
(***************************************************************************)
ValidStream(n) == RecordStream(n, 0, 0, FALSE)
\* the plaintext the valid file of n records decrypts to
ValidPlain(n) == [i \in 1..n |-> [Index |-> i - 1, Data |-> <<i>>]]
DecryptionReturned == mode = "Decryption" /\ Returned /\ ~extCancel
ReorderedInput == \E n \in 2..MaxRecords : input = Reordered(ValidStream(n))

\* C14: decrypting a file whose chunk records were reordered, header and
\* records otherwise unchanged, fails.
C14_ReorderedRecordsFail ==
    (DecryptionReturned /\ ReorderedInput) => ret # NoError

\* the valid file of n records with one byte of record i changed: in a data
\* shard, or in a parity shard
DataByteChanged(n, i) == input = RecordStream(n, i, 0, FALSE)
ParityByteChanged(n, i) == input = WithParityFault(ValidStream(n), i)
OneByteChanged ==
    \E n \in 1..MaxFaultyRecords : \E i \in 1..n :
        DataByteChanged(n, i) \/ ParityByteChanged(n, i)

\* C15: for a valid file, changing any single byte of the chunk section
\* (offset 128 or more) makes decryption fail.
C15_ByteFlipFails ==
    (DecryptionReturned /\ OneByteChanged) => ret # NoError

\* C16: for a valid file in which at most ParityShards shards of one chunk
\* are corrupted (here: one byte of one shard), Reed-Solomon decoding repairs
\* the chunk and decryption succeeds with the original plaintext.
C16_CorruptShardsRepaired ==
    \A n \in 1..MaxFaultyRecords : \A i \in 1..n :
        (DecryptionReturned /\ (DataByteChanged(n, i) \/ ParityByteChanged(n, i))) =>
            ret = NoError /\ out = ValidPlain(n)

(***************************************************************************)
(* Properties of the header checks.                                        *)
(***************************************************************************)
HeaderRejections ==
    {"ErrChecksumMismatch", "ErrTampering", "ErrAuthFailure", "ErrInvalidMagic"}

\* C17: after a single byte of the serialized header at an offset in 4..127
\* was changed, DecryptFile never gets past VerifyKey, and it ends in
\* ReadHeader or VerifyKey with ChecksumMismatch, Tampering, AuthFailure or
\* InvalidMagic.
C17_HeaderTamperRejected ==
    tampered # "" =>
        /\ opc \notin {"dec_create", "dec_stream", "dec_done", "cli_dec_done"}
        /\ opc = "dec_failed" =>
              /\ opErr[1] \in {"failed to read header", "header verification failed"}
              /\ opErr[2] \in HeaderRejections

\* C17 witness: DecryptFile, given the right password, rejected a header whose
\* stored auth tag had been changed.
C17_Witness ==
    /\ tampered = "authTag" /\ opc = "dec_failed"
    /\ encPw # "" /\ decPw = encPw
    /\ opErr[2] \in HeaderRejections

(***************************************************************************)
(* Properties of the chunk processor and of the compressor.                *)
(***************************************************************************)
Decrypted == call.op = "Decrypt"
\* the sealed bytes inside the buffer handed to Decrypt, without what follows
SealedOf(buf) == [buf.data EXCEPT !.extra = 0]

\* the AEAD open the claim describes: when the open of the whole buffer fails, the
\* buffer is shortened by one byte at a time until an open succeeds or the
\* candidate would be shorter than MinShrunkLen
MinShrunkLen == 29 + 16
RECURSIVE OpenShrinking(_, _)
OpenShrinking(k, c) ==
    LET r == AESDecrypt(k, c)
    IN IF r.ok THEN r
       ELSE IF c.extra = 0 \/ SealedLen(c) - 1 < MinShrunkLen THEN r
       ELSE OpenShrinking(k, [c EXCEPT !.extra = @ - 1])

\* Decrypt with that open in the place of the single AEAD open
ProcessorDecrypt_Shrinking(k, data) ==
    LET decoded == Decode(data) IN
    IF ~decoded.ok THEN Fail("decoding failed") ELSE
    LET decrypted == OpenShrinking(k, decoded.val) IN
    IF ~decrypted.ok THEN Fail("decryption failed") ELSE
    LET unpadded == Unpad(decrypted.val) IN
    IF ~unpadded.ok THEN Fail("unpadding failed") ELSE
    LET decompressed == Decompress(unpadded.val) IN
    IF ~decompressed.ok THEN Fail("decompression failed") ELSE decompressed

\* C18: Decrypt opens the decoded buffer of k*shardSize bytes and, when that
\* open fails, retries on the buffer shortened by one byte at a time until an
\* open succeeds or the candidate is shorter than 29 + 16; so Decrypt returns
\* what the retrying open leads to.
C18_ShrinkUntilOpen ==
    Decrypted => call.res = ProcessorDecrypt_Shrinking(call.key, call.arg)

\* C19: for every chunk handed to Encrypt, the empty chunk included, Encrypt
\* succeeds, and Decrypt by a second processor built from the same key,
\* applied to what Encrypt returned, succeeds and returns exactly the chunk.
C19_ChunkRoundTrip ==
    /\ call.op = "Encrypt" => call.res.ok
    /\ (Decrypted /\ call.key = call.encKey /\ call.zeros = 0) =>
          call.res = Ok(call.chunk)

\* C19 witness: the empty chunk went through Encrypt and Decrypt under one key.
C19_Witness ==
    /\ Decrypted /\ call.key = call.encKey /\ call.zeros = 0
    /\ call.chunk = <<>> /\ call.res = Ok(<<>>)
    /\ EncodedLen(call.arg) > 0

\* C20: whenever the decompressed output would exceed the output-size bound,
\* Decompress fails with DecompressionFailed and returns no output.
C20_DecompressFailsBeyondBound ==
    (call.op = "Decompress" /\ Len(call.chunk) > MaxDecompressionSize) =>
        call.res = Fail("ErrDecompressionFailed")

(***************************************************************************)
(* Progress reporting of the writer.                                       *)
(***************************************************************************)
\* the plaintext length of the chunk behind out[i]: the length of the task
\* payload when encrypting, the length of the written bytes when decrypting
PlainLenOf(i) ==
    IF mode = "Encryption"
    THEN Len(SerialTasks[out[i].Index + 1].Data)
    ELSE Len(out[i].Data)

\* C21: the progress callback has been called exactly once per written
\* chunk, in write order, each time with that chunk's plaintext length, and
\* never for a chunk whose write did not happen or failed.
C21_ProgressPerWrittenChunk ==
    /\ Len(progress) = Len(out)
    /\ \A i \in 1..Len(out) : progress[i] = PlainLenOf(i)

\* a run that wrote a chunk and then stopped on a failed write
C21_Witness ==
    /\ Returned /\ wrerr = "writing chunk data"
    /\ out # <<>> /\ progress # <<>>


(***************************************************************************)
(* What DecryptFile reports for a wrong password and for a changed header. *)
(***************************************************************************)
\* DecryptFile failed on a file whose header was changed or with a password
\* other than the one the file was encrypted with (both passwords non-empty)
WrongPasswordOrTampered ==
    /\ opc = "dec_failed" /\ encPw # "" /\ decPw # ""
    /\ (tampered # "" \/ decPw # encPw)

\* C22: DecryptFile returns one and the same error for a wrong password and
\* for a tampered header: whenever it fails for either cause, the error it
\* returns is the error a wrong password produces.
C22_SameErrorForWrongPasswordAndTamper ==
    WrongPasswordOrTampered => opErr = ErrWrongPassword


(***************************************************************************)
(* Termination of Process.                                                 *)
(***************************************************************************)
\* C23: every run of Process eventually returns, whatever stage error or
\* Cancel happened on the way: no stage stays blocked on a channel.
C23_ProcessEventuallyReturns == <>Returned

\* C23 witness: the writer has left on an error, the result channel is full
\* and a worker is at its send of a result nobody will receive.
C23_Witness ==
    /\ wrpc = "done" /\ wrerr \in {"writing chunk data", "processing chunk"}
    /\ ~ctxDone
    /\ Len(resultChan) = QueueSize
    /\ \A w \in Workers : wpc[w] = "send"
    /\ Len(taskChan) = QueueSize /\ rpc = "send"


(***************************************************************************)
(* The original size in the header and the bytes DecryptFile wrote.        *)
(***************************************************************************)
DecryptSucceeded == opc \in {"dec_done", "cli_dec_done"} /\ opErr = NoError

\* C24: when DecryptFile has returned success, the destination holds as many
\* plaintext bytes as the originalSize of the header it read; so a file that
\* lost trailing chunk records is never decrypted successfully.
C24_WrittenSizeIsOriginalSize ==
    DecryptSucceeded => Len(decFile.data) = hdr.originalSize


(***************************************************************************)
(* The tasks of the reader stage.                                          *)
(***************************************************************************)
ReaderEnded == rpc = "done" /\ rerr = "nil"
TaskPayloads == [i \in 1..Len(sentTasks) |-> sentTasks[i].Data]

\* C25: when the encrypting reader has ended at the end of its source, the
\* payloads of the tasks it sent, joined in index order, are all the bytes
\* the source delivered, also when the last bytes came together with io.EOF.
C25_TasksCoverSource ==
    (mode = "Encryption" /\ ReaderEnded) =>
        /\ \A i \in 1..Len(sentTasks) : sentTasks[i].Index = i - 1
        /\ Concat(TaskPayloads) = input


(***************************************************************************)
(* Properties of the reorder buffer on its own.                            *)
(***************************************************************************)
\* C26: after every Add of a new index, the results returned so far are
\* exactly those of indices 0..next-1, each once and in ascending order, and
\* every result the buffer still holds has an index greater than next.
C26_AddReturnsPrefixInOrder ==
    /\ Len(ready) = bufNext
    /\ \A i \in 1..Len(ready) : ready[i].Index = i - 1
    /\ \A k \in DOMAIN bufResults : k > bufNext

\* C26 witness: results arrived out of order; a gap was closed by a later Add
\* that returned several results, and later indices are still held.
C26_Witness ==
    /\ opc = "buffer" /\ bufNext >= 3
    /\ bufResults # EmptyMap
    /\ 0 \notin DOMAIN bufResults


\* the payloads the reader meets in its source, in read order: the chunks of
\* ChunkSize bytes when encrypting, the records of non-zero length when
\* decrypting
SourcePayloads ==
    IF mode = "Encryption" THEN SplitChunks(input) ELSE RecordPayloads(input)

\* C27: in both directions the k-th task the reader sends has index k-1 and
\* carries the k-th payload of the source, so indices run 0, 1, 2, ... with
\* no gap and no repeat, and a zero-length record takes no index.
C27_IndicesInReadOrder ==
    /\ Len(sentTasks) = rindex
    /\ Len(sentTasks) <= Len(SourcePayloads)
    /\ \A i \in 1..Len(sentTasks) :
          /\ sentTasks[i].Index = i - 1
          /\ sentTasks[i].Data = SourcePayloads[i]
    /\ rpc = "send" => rtask.Index = rindex

\* C27 witness: a decrypting reader that met a zero-length record first and
\* has sent two tasks after it.
C27_Witness ==
    /\ mode = "Decryption" /\ opc = "process"
    /\ Len(input) >= 3 /\ input[1].len = 0
    /\ Len(sentTasks) >= 2


(***************************************************************************)
(* The destination of DecryptFile before the stream starts.                *)
(***************************************************************************)
DecPreludeFailed ==
    /\ opc = "dec_failed"
    /\ opErr[1] \in {"failed to read header", "failed to derive key",
                     "header verification failed"}

\* C28: while DecryptFile reads the header, derives the key and verifies it,
\* and when it has failed in one of these steps, the destination path is as
\* it was before the call: absent, or the older file with its content.
C28_PreludeFailureLeavesDestination ==
    (opc \in {"dec_derive", "dec_verify"} \/ DecPreludeFailed) =>
        decFile \in {NoDecFile, OldDecFile}

\* C28 witness: DecryptFile failed in VerifyKey on a wrong password while an
\* older file with content lay at the destination path.
C28_Witness ==
    /\ DecPreludeFailed /\ opErr = ErrWrongPassword
    /\ decFile = OldDecFile /\ decFile.data # <<>>


(***************************************************************************)
(* The channel-only pipeline of package worker.                            *)
(***************************************************************************)
PipeRunning == wp.mpc \notin {"idle", "returned"}

\* C29: a run of Worker.runPipeline in which the processing of a chunk fails
\* never comes to a halt before it returned (some goroutine can always take
\* a step: no worker stays blocked on results, the reader does not stay
\* blocked on tasks), and when it has returned it returned the chunk error.
C29_PipelineReturnsChunkError ==
    /\ (PipeRunning /\ wp.bad # 0) => ENABLED PipeStep
    /\ (wp.mpc = "returned" /\ wp.bad # 0) =>
          wp.ret = <<"processing chunk", wp.bad - 1>>

(***************************************************************************)
(* Length of the sealed buffer handed to the Reed-Solomon encoder.         *)
(***************************************************************************)
\* C30: for every chunk, the sealed buffer that Processor.Encrypt hands to
\* the encoder has length 16*j + 28 for some j >= 1 (padded length, nonce
\* and tag), a multiple of k = 4; the splitter adds no zero byte and
\* Encoder.Decode returns exactly the sealed bytes, nothing after the tag.
C30_SealedLenFillsShards ==
    (call.op = "Encrypt" /\ call.res.ok) =>
        LET e == call.res.val
            n == SealedLen(e.data)
        IN /\ \E j \in 1..n : n = PaddingSize * j + NonceSize + TagSize
           /\ n % DataShards = 0
           /\ e.zeros = 0
           /\ e.shardSize * DataShards = n
           /\ e.data.extra = 0
           /\ Decode(e) = Ok(e.data)

\* C30 witness: Encrypt sealed a chunk of ChunkSize bytes: two padded blocks.
C30_Witness ==
    /\ call.op = "Encrypt" /\ call.res.ok
    /\ Len(call.chunk) = ChunkSize
    /\ SealedLen(call.res.val.data) = 2 * PaddingSize + NonceSize + TagSize
    /\ Decode(call.res.val) = Ok(call.res.val.data)

====
